---- MODULE Spec2Model ----
(***************************************************************************)
(* Model of arch_wsl_setup.py: the cleanup ledger (CleanupManager), the    *)
(* retry decorator, the selection menu (App._menu over Registry) and the   *)
(* run of a plan (App._execute, the tasks, the signal handler and the      *)
(* exit hook).                                                             *)
(***************************************************************************)
EXTENDS Integers, Sequences, FiniteSets, TLC

VARIABLES
    lists,      \* heap of Python list objects that are or were bound to CleanupManager._cleanup_items
    cur,        \* the list object currently bound to CleanupManager._cleanup_items
    disk,       \* paths that exist on the host's disk
    disk0,      \* history: the disk when the run started
    cl,         \* activation of CleanupManager.cleanup(): state, iterated list, index, caller
    rms,        \* history: the delete commands cleanup() issued, with their outcome
    ops,        \* history: the ledger calls made through the API, in order
    rt,         \* activation of a retry-wrapped call: the wrapper's locals and what it logged
    op,         \* the wrapped operation: how often it fails before it succeeds, its calls so far
    features,   \* Registry._features: the dict as a sequence of [key, order] in insertion order
    input,      \* the characters read by input() at the selection prompt
    intent,     \* history: the tokens the operator meant to type
    menu,       \* where App._menu is: "import", "prompt", "rejected" (prompting again) or "returned"
    selected,   \* App.selected
    plan,       \* the keys of `features` in App._execute, sorted by order
    i,          \* position in plan of the task the for loop of _execute is at
    pc,         \* where the main thread is
    res,        \* how the task's execute ended: "ok", "skipped" or "raised"
    status,     \* per position of plan: Pending, Running, Success, Skipped or Failed
    tracker,    \* TaskTracker._tasks
    workers,    \* per plugin, the worker thread running _install_plugin
    sig,        \* the interrupt: "none", "handler" (signal_handler is running), "exiting" or "swallowed"
    exitStatus, \* the exit status of the process, -1 while it runs
    hist,       \* history: what the claims speak of (abort decision, ledger at that moment, ...)
    tk,         \* the tracker driven call by call: the last outcome, what was propagated, the summary
    cx,         \* Context (username, user_home) with the host's users and where _collect_data and the plan are
    logs,       \* the messages written to the log, in order
    host        \* files of the host a task reads and edits in place, and what the task did with them

ledgerVars == <<lists, cur, disk, disk0, cl, rms, ops>>
retryVars == <<rt, op>>
menuVars == <<features, input, intent, menu, selected>>
appVars == <<plan, i, pc, res, status, tracker, workers, sig, exitStatus, hist>>
auxVars == <<tk, cx, logs, host>>
vars == <<lists, cur, disk, disk0, cl, rms, ops, rt, op, features, input, intent, menu, selected,
          plan, i, pc, res, status, tracker, workers, sig, exitStatus, hist, tk,
          cx, logs, host>>

(***************************************************************************)
(* CleanupManager                                                          *)
(***************************************************************************)
\* One ledger entry, the dict built by register (description is free text, left out).
Entry(path, type, user) == [path |-> path, type |-> type, user |-> user]

\* The list currently bound to _cleanup_items.
Items == lists[cur]

\* register: self._cleanup_items.append({...}) on the list object `ref`.
register(ref, e) == [lists EXCEPT ![ref] = Append(@, e)]

WithoutPaths_KeepsAll(items, paths) == items

\* The list comprehension the tasks use to take entries off the ledger:
\* [item for item in items if item['path'] not in paths].
WithoutPaths(items, paths) == SelectSeq(items, LAMBDA it : it.path \notin paths)

\* The command cleanup() builds for an entry.
RmCommand(item) == IF item.type = "dir" THEN "rm -rf" ELSE "rm -f"

ClIdle == [state |-> "idle", ref |-> 0, idx |-> 0, ret |-> "none"]

cleanup_enter_NoLoop(caller) == [state |-> "returned", ref |-> 0, idx |-> 0, ret |-> caller]

\* cleanup() is entered by `caller`: an empty ledger returns at once, otherwise the
\* for loop starts on the list object bound at that moment.
cleanup_enter(caller) ==
    IF Items = <<>>
    THEN [state |-> "returned", ref |-> 0, idx |-> 0, ret |-> caller]
    ELSE [state |-> "loop", ref |-> cur, idx |-> 1, ret |-> caller]

\* How the delete command of cleanup() can end: it deletes the artifact and exits 0,
\* it exits non-zero, or subprocess.run itself raises.
RmOutcomes == {"deleted", "nonzero", "raised"}

\* What cleanup() logs for the outcome: check=False ignores the exit status, so
\* "已删除" is logged unless subprocess.run raised, which is logged as a warning.
RmLogged(outcome) == IF outcome = "raised" THEN "warning" ELSE "deleted"

\* One iteration of `for item in self._cleanup_items`: a path that does not exist is
\* skipped; otherwise the delete command runs with check=False, so its exit status is
\* ignored and the deletion is logged either way.
cleanup_item ==
    /\ cl.state = "loop"
    /\ cl.idx <= Len(lists[cl.ref])
    /\ LET item == lists[cl.ref][cl.idx] IN
         IF item.path \notin disk
         THEN UNCHANGED <<disk, rms>>
         ELSE \E outcome \in RmOutcomes :
                /\ disk' = IF outcome = "deleted" THEN disk \ {item.path} ELSE disk
                /\ rms' = rms \cup {[path |-> item.path, cmd |-> RmCommand(item),
                                     user |-> item.user, ok |-> outcome = "deleted",
                                     logged |-> RmLogged(outcome)]}
    /\ cl' = [cl EXCEPT !.idx = @ + 1]
    /\ UNCHANGED <<lists, cur>>

\* The loop is exhausted: self._cleanup_items.clear() empties the list bound now.
cleanup_end ==
    /\ cl.state = "loop"
    /\ cl.idx > Len(lists[cl.ref])
    /\ lists' = [lists EXCEPT ![cur] = <<>>]
    /\ cl' = [cl EXCEPT !.state = "returned"]
    /\ UNCHANGED <<cur, disk, rms>>

\* clear(): self._cleanup_items.clear().
clear == [lists EXCEPT ![cur] = <<>>]

\* The plugins of cfg.ZSH_PLUGINS (the two custom plugins .zshrc is given).
Plugins == {"zsh-autosuggestions", "zsh-syntax-highlighting"}

\* The list objects a thread still holds besides the one bound to _cleanup_items: a
\* worker inside register() that has loaded the list and not yet appended, and the
\* list cleanup() is iterating over.
HeldRefsOf(ws, c) ==
    {ws[p].ref : p \in {q \in Plugins : ws[q].pc = "append"}}
        \cup (IF c.state = "loop" THEN {c.ref} ELSE {})

HeldRefs == HeldRefsOf(workers, cl)

\* A list object nothing refers to any more is freed.
Collect(ls, live) == [j \in 1..Len(ls) |-> IF j \in live THEN ls[j] ELSE <<>>]

\* cleanup_mgr._cleanup_items = items: the attribute is bound to a new list object
\* (placed in the first free slot); the list bound before lives on only while a
\* thread still holds it.
Rebind(items) ==
    LET free == {j \in 1..Len(lists) : j \notin HeldRefs}
        slot == IF free = {} THEN Len(lists) + 1
                ELSE CHOOSE j \in free : \A k \in free : j <= k
        n == IF slot > Len(lists) THEN slot ELSE Len(lists)
    IN [lists |-> [j \in 1..n |-> IF j = slot THEN items
                                  ELSE IF j \in HeldRefs THEN lists[j] ELSE <<>>],
        cur |-> slot]

(***************************************************************************)
(* The ledger driven call by call (register, unregister, cleanup, clear).  *)
(***************************************************************************)
MaxOps == 4
ApiPaths == {"A", "B"}

ApiRegister(p) ==
    /\ cl.state = "idle" /\ Len(ops) < MaxOps
    /\ lists' = register(cur, Entry(p, "dir", ""))
    /\ ops' = Append(ops, <<"register", p>>)
    /\ UNCHANGED <<cur, disk, cl, rms, disk0, retryVars, menuVars, auxVars, appVars>>

\* The unregister the tasks write inline: rebind _cleanup_items to the filtered copy.
ApiUnregister(p) ==
    /\ cl.state = "idle" /\ Len(ops) < MaxOps
    /\ LET b == Rebind(WithoutPaths(Items, {p})) IN lists' = b.lists /\ cur' = b.cur
    /\ ops' = Append(ops, <<"unregister", p>>)
    /\ UNCHANGED <<disk, cl, rms, disk0, retryVars, menuVars, auxVars, appVars>>

ApiCleanup ==
    /\ cl.state = "idle" /\ Len(ops) < MaxOps
    /\ cl' = cleanup_enter("api")
    /\ ops' = Append(ops, <<"cleanup", "">>)
    /\ UNCHANGED <<lists, cur, disk, rms, disk0, retryVars, menuVars, auxVars, appVars>>

ApiCleanupStep ==
    /\ cl.ret = "api"
    /\ \/ cleanup_item
       \/ cleanup_end
       \/ /\ cl.state = "returned"
          /\ cl' = ClIdle
          /\ UNCHANGED <<lists, cur, disk, rms>>
    /\ UNCHANGED <<ops, disk0, retryVars, menuVars, auxVars, appVars>>

ApiClear ==
    /\ cl.state = "idle" /\ Len(ops) < MaxOps
    /\ lists' = clear
    /\ ops' = Append(ops, <<"clear", "">>)
    /\ UNCHANGED <<cur, disk, cl, rms, disk0, retryVars, menuVars, auxVars, appVars>>

RetryIdle == [state |-> "idle"]

\* The registry the module builds when it is imported: the @Registry.register
\* decorators in source order.
ProgramFeatures ==
    << [key |-> "mirrors", order |-> 5], [key |-> "update", order |-> 10],
       [key |-> "base", order |-> 11], [key |-> "optional", order |-> 12],
       [key |-> "user", order |-> 20], [key |-> "wsl", order |-> 21],
       [key |-> "omz", order |-> 30], [key |-> "zsh-plugins", order |-> 31],
       [key |-> "zshrc", order |-> 32], [key |-> "yay", order |-> 40],
       [key |-> "conda", order |-> 41], [key |-> "github", order |-> 50] >>

MenuIdle ==
    /\ features = ProgramFeatures /\ input = <<>> /\ intent = <<>>
    /\ menu = "returned" /\ selected = <<>>

WIdle == [pc |-> "idle", ref |-> 0, snap |-> <<>>, rt |-> RetryIdle, result |-> "none"]

HistNone ==
    [abort |-> "none", atAbort |-> {}, cleared |-> FALSE,
     atClear |-> {}, registered |-> {}, claimed |-> {}, claimedAtSignal |-> {},
     startedAfterSignal |-> FALSE, uncaught |-> FALSE, atUncaught |-> {},
     atSuccess |-> {}, subResults |-> [p \in Plugins |-> "none"],
     accepted |-> {}, declined |-> {}, prompted |-> {}]

\* run_with_tracking has not been called, no summary was printed.
TkIdle ==
    [called |-> FALSE, last |-> [raised |-> FALSE, value |-> "None", msg |-> <<>>],
     propagated |-> <<>>,
     summary |-> [printed |-> FALSE, total |-> 0, success_count |-> 0, skipped_count |-> 0,
                  failed_count |-> 0, total_duration |-> 0]]

\* Context() as constructed: no username, so __post_init__ resolves no home.
CxIdle ==
    [pc |-> "idle", username |-> "", user_home |-> <<>>, candidate |-> "", users |-> {},
     user_selected |-> FALSE, used |-> <<>>]

\* No task has looked at the host's files.
HostIdle == [task |-> "none"]

\* No plan is being run.
AppIdle ==
    /\ plan = <<>> /\ i = 1 /\ pc = "idle" /\ res = "none" /\ status = <<>>
    /\ tracker = <<>> /\ workers = [p \in Plugins |-> WIdle] /\ sig = "none"
    /\ exitStatus = -1 /\ hist = HistNone
    /\ tk = TkIdle /\ cx = CxIdle /\ logs = <<>> /\ host = HostIdle

InitLedger ==
    /\ MenuIdle /\ AppIdle
    /\ rt = RetryIdle /\ op = [fails |-> 0, calls |-> 0]
    /\ lists = << <<>> >>
    /\ cur = 1
    /\ disk \in SUBSET ApiPaths
    /\ disk0 = disk
    /\ cl = ClIdle
    /\ rms = {}
    /\ ops = <<>>

NextLedger ==
    \/ \E p \in ApiPaths : ApiRegister(p)
    \/ \E p \in ApiPaths : ApiUnregister(p)
    \/ ApiCleanup
    \/ ApiCleanupStep
    \/ ApiClear

SpecLedger == InitLedger /\ [][NextLedger]_vars

\* The delete commands cleanup() issued on path p, and whether one of them failed.
RmIssued(p) == \E r \in rms : r.path = p
RmFailed(p) == \E r \in rms : r.path = p /\ ~r.ok

OpsCleanup(a, b) ==
    << <<"register", a>>, <<"register", b>>, <<"unregister", a>>, <<"cleanup", "">> >>
OpsClear(a, b) ==
    { << <<"register", a>>, <<"register", b>>, <<"clear", "">> >>,
      << <<"register", a>>, <<"register", b>>, <<"unregister", a>>, <<"clear", "">> >> }

\* C6: after register(A), register(B), unregister(A), when cleanup() returns the
\* ledger is empty, the only delete it issued is B's, A's artifact is as it was and
\* B's artifact is gone (unless the host's delete command itself failed, which
\* cleanup() ignores); after the same registrations clear() leaves the disk as it
\* was, issues no delete and leaves the ledger empty.
C6_LedgerCorrectness ==
    \A a \in ApiPaths : \A b \in ApiPaths \ {a} :
        /\ (ops = OpsCleanup(a, b) /\ cl.state = "returned") =>
              /\ Items = <<>>
              /\ \A r \in rms : r.path = b
              /\ (a \in disk) = (a \in disk0)
              /\ b \in disk0 => RmIssued(b)
              /\ b \in disk => RmFailed(b)
        /\ ops \in OpsClear(a, b) =>
              /\ Items = <<>>
              /\ rms = {}
              /\ disk = disk0

\* C6 witness: both artifacts were on disk, cleanup() has returned, A is still
\* there and B is gone.
C6_Witness ==
    /\ ops = OpsCleanup("A", "B") /\ cl.state = "returned"
    /\ disk0 = {"A", "B"} /\ disk = {"A"}

(***************************************************************************)
(* retry                                                                   *)
(***************************************************************************)
MaxTimes == 4
MaxFails == 4
Values == {"v1", "v2"}

\* The wrapper's locals as the for loop starts (last_exception = None), with counters
\* of what it logs and how often it sleeps.
retry_enter(times) ==
    [state |-> "loop", times |-> times, attempt |-> 1, last_exception |-> "None",
     result |-> "None", warnings |-> 0, infos |-> 0, errors |-> 0, sleeps |-> 0]

retry_attempt_KeepsFirst(r, out) ==
    IF out.ok
    THEN [r EXCEPT !.state = "returned", !.result = out.val]
    ELSE LET e == IF r.last_exception = "None" THEN out.val ELSE r.last_exception IN
         IF r.attempt < r.times
         THEN [r EXCEPT !.last_exception = e, !.warnings = @ + 1, !.infos = @ + 1,
                        !.sleeps = @ + 1, !.attempt = @ + 1]
         ELSE [r EXCEPT !.last_exception = e, !.errors = @ + 1,
                        !.state = "raised", !.result = e]

retry_attempt_SleepsAlways(r, out) ==
    IF out.ok
    THEN [r EXCEPT !.state = "returned", !.result = out.val]
    ELSE IF r.attempt < r.times
         THEN [r EXCEPT !.last_exception = out.val, !.warnings = @ + 1, !.infos = @ + 1,
                        !.sleeps = @ + 1, !.attempt = @ + 1]
         ELSE [r EXCEPT !.last_exception = out.val, !.errors = @ + 1, !.sleeps = @ + 1,
                        !.state = "raised", !.result = out.val]

\* One pass of the loop body: func returns (out.ok) and the wrapper returns its value,
\* or func raises out.val; before the last attempt that is a warning, the retry
\* notice and a sleep, on the last attempt the error is logged, the loop ends and
\* last_exception is raised.
retry_attempt(r, out) ==
    IF out.ok
    THEN [r EXCEPT !.state = "returned", !.result = out.val]
    ELSE IF r.attempt < r.times
         THEN [r EXCEPT !.last_exception = out.val, !.warnings = @ + 1, !.infos = @ + 1,
                        !.sleeps = @ + 1, !.attempt = @ + 1]
         ELSE [r EXCEPT !.last_exception = out.val, !.errors = @ + 1,
                        !.state = "raised", !.result = out.val]

\* The failure the operation raises on its n-th call.
Failure(n) == <<"error", n>>

\* The stub operation: fails on its first op.fails calls, then returns op.value.
OpOutcome ==
    IF op.calls < op.fails
    THEN [ok |-> FALSE, val |-> Failure(op.calls + 1)]
    ELSE [ok |-> TRUE, val |-> op.value]

RetryCall ==
    /\ rt.state = "loop"
    /\ rt' = retry_attempt(rt, OpOutcome)
    /\ op' = [op EXCEPT !.calls = @ + 1]
    /\ UNCHANGED <<ledgerVars, menuVars, auxVars, appVars>>

InitRetry ==
    /\ \E n \in 1..MaxTimes : rt = retry_enter(n)
    /\ \E k \in 0..MaxFails : \E v \in Values : op = [fails |-> k, calls |-> 0, value |-> v]
    /\ lists = << <<>> >> /\ cur = 1 /\ disk = {} /\ disk0 = {} /\ cl = ClIdle
    /\ rms = {} /\ ops = <<>>
    /\ MenuIdle /\ AppIdle

NextRetry == RetryCall

SpecRetry == InitRetry /\ [][NextRetry]_vars

RetryOver == rt.state \in {"returned", "raised"}

\* C5: an operation that fails exactly k times and then succeeds, under retry with N
\* attempts: with N >= k+1 the call returns the operation's value and exactly k
\* warnings were logged; with N <= k the call raises the failure of the operation's
\* last (N-th) call, unchanged.
C5_RetryPolicy ==
    RetryOver =>
        IF rt.times >= op.fails + 1
        THEN rt.state = "returned" /\ rt.result = op.value /\ rt.warnings = op.fails
        ELSE rt.state = "raised" /\ rt.result = Failure(rt.times)
                                /\ rt.result = Failure(op.calls)

\* C5 witnesses: a call that succeeded after two failures, and one that gave up.
C5_Witness ==
    /\ rt.state = "returned" /\ op.fails = 2 /\ rt.times = 3 /\ rt.warnings = 2

C5_WitnessExhausted ==
    /\ rt.state = "raised" /\ op.fails = 3 /\ rt.times = 3

(***************************************************************************)
(* Registry and App._menu                                                  *)
(***************************************************************************)
KeySeq == <<"k1", "k2", "k3">>
Orders == {1, 2}
MaxNum == 3

Keys(fs) == [j \in 1..Len(fs) |-> fs[j].key]
HasKey(fs, k) == \E j \in 1..Len(fs) : fs[j].key = k

\* Registry.register(key, order): cls._features[key] = feature_class. A dict keeps
\* a key that is already there at its place and replaces its value.
Registry_register(fs, k, o) ==
    IF HasKey(fs, k)
    THEN [j \in 1..Len(fs) |-> IF fs[j].key = k THEN [key |-> k, order |-> o] ELSE fs[j]]
    ELSE Append(fs, [key |-> k, order |-> o])

\* Registry.get(key)._order
OrderOf(fs, k) == fs[CHOOSE j \in 1..Len(fs) : fs[j].key = k].order

RECURSIVE InsertByOrder_TiesFirst(_, _)
InsertByOrder_TiesFirst(sorted, f) ==
    IF sorted = <<>> THEN <<f>>
    ELSE IF sorted[Len(sorted)].order < f.order THEN Append(sorted, f)
    ELSE Append(InsertByOrder_TiesFirst(SubSeq(sorted, 1, Len(sorted) - 1), f),
                sorted[Len(sorted)])

RECURSIVE InsertByOrder(_, _)
InsertByOrder(sorted, f) ==
    IF sorted = <<>> THEN <<f>>
    ELSE IF sorted[Len(sorted)].order <= f.order THEN Append(sorted, f)
    ELSE Append(InsertByOrder(SubSeq(sorted, 1, Len(sorted) - 1), f), sorted[Len(sorted)])

\* sorted(items, key=lambda x: x[1]._order): Python's sort is stable.
RECURSIVE SortedByOrder(_)
SortedByOrder(fs) ==
    IF fs = <<>> THEN <<>>
    ELSE InsertByOrder(SortedByOrder(SubSeq(fs, 1, Len(fs) - 1)), fs[Len(fs)])

Digit == <<"0", "1", "2", "3", "4", "5", "6", "7", "8", "9">>
IsDigit(c) == \E d \in 0..9 : Digit[d + 1] = c
DigitValue(c) == CHOOSE d \in 0..9 : Digit[d + 1] = c

\* str.upper(), on the letters the prompt can be given here.
upper(s) == [j \in 1..Len(s) |-> IF s[j] = "a" THEN "A" ELSE IF s[j] = "x" THEN "X" ELSE s[j]]

\* str.strip()
RECURSIVE strip(_)
strip(s) ==
    IF s = <<>> THEN s
    ELSE IF s[1] = " " THEN strip(Tail(s))
    ELSE IF s[Len(s)] = " " THEN strip(SubSeq(s, 1, Len(s) - 1))
    ELSE s

\* str.split(sep)
RECURSIVE split(_, _)
split(s, sep) ==
    IF \A j \in 1..Len(s) : s[j] # sep THEN <<s>>
    ELSE LET j == CHOOSE j \in 1..Len(s) : s[j] = sep /\ \A m \in 1..(j - 1) : s[m] # sep
         IN <<SubSeq(s, 1, j - 1)>> \o split(SubSeq(s, j + 1, Len(s)), sep)

\* int(s) raises ValueError unless s, stripped, is a non-empty string of digits.
IsInt(s) == strip(s) # <<>> /\ \A j \in 1..Len(strip(s)) : IsDigit(strip(s)[j])

RECURSIVE DigitsValue(_)
DigitsValue(s) ==
    IF s = <<>> THEN 0
    ELSE DigitsValue(SubSeq(s, 1, Len(s) - 1)) * 10 + DigitValue(s[Len(s)])

int(s) == DigitsValue(strip(s))

\* seq[idx] on a Python list: IndexError unless -len <= idx < len, and a negative
\* idx counts from the end.
InBounds(seq, idx) == -Len(seq) <= idx /\ idx <= Len(seq) - 1
PyIndex(seq, idx) == IF idx >= 0 THEN seq[idx + 1] ELSE seq[Len(seq) + idx + 1]

Raised == [ok |-> FALSE, keys |-> <<>>]
Got(keys) == [ok |-> TRUE, keys |-> keys]

ParseRange_ExclusiveEnd(part, sf) ==
    LET pieces == split(part, "-") IN
    IF Len(pieces) # 2 \/ ~IsInt(pieces[1]) \/ ~IsInt(pieces[2]) THEN Raised
    ELSE LET start == int(pieces[1])
             end == int(pieces[2]) - 1
         IN IF \E n \in start..end : ~InBounds(sf, n - 1) THEN Raised
            ELSE Got([j \in 1..(end - start + 1) |-> PyIndex(sf, start + j - 2).key])

\* start, end = map(int, part.split('-'));
\* [sorted_features[i-1][0] for i in range(start, end+1)]
ParseRange(part, sf) ==
    LET pieces == split(part, "-") IN
    IF Len(pieces) # 2 \/ ~IsInt(pieces[1]) \/ ~IsInt(pieces[2]) THEN Raised
    ELSE LET start == int(pieces[1])
             end == int(pieces[2])
         IN IF \E n \in start..end : ~InBounds(sf, n - 1) THEN Raised
            ELSE Got([j \in 1..(end - start + 1) |-> PyIndex(sf, start + j - 2).key])

\* idx = int(part) - 1; sorted_features[idx][0]
ParseIndex(part, sf) ==
    IF ~IsInt(part) THEN Raised
    ELSE IF ~InBounds(sf, int(part) - 1) THEN Raised
    ELSE Got(<<PyIndex(sf, int(part) - 1).key>>)

\* The body of the for loop over the parts, for one part.
ParsePart(part, sf) ==
    LET p == strip(part) IN
    IF \E j \in 1..Len(p) : p[j] = "-" THEN ParseRange(p, sf) ELSE ParseIndex(p, sf)

\* The for loop: selected grows part by part; a part that raises ends the try block.
RECURSIVE ParseParts(_, _)
ParseParts(parts, sf) ==
    IF parts = <<>> THEN Got(<<>>)
    ELSE LET head == ParseParts(SubSeq(parts, 1, Len(parts) - 1), sf)
             last == ParsePart(parts[Len(parts)], sf)
         IN IF head.ok /\ last.ok THEN Got(head.keys \o last.keys) ELSE Raised

\* choice.replace(fullwidth comma, ','): the fullwidth comma is written ";" here.
replace_comma(s) == [j \in 1..Len(s) |-> IF s[j] = ";" THEN "," ELSE s[j]]

\* One pass of the while loop of _menu on the line read: 'A' returns every key of
\* the registry; otherwise the parts are parsed against the displayed (sorted)
\* list, and a non-empty result is returned; anything else prompts again.
menu_choice(fs, sorted_features, line) ==
    LET choice == upper(strip(line)) IN
    IF choice = <<"A">> THEN Got(Keys(fs))
    ELSE LET r == ParseParts(split(replace_comma(choice), ","), sorted_features) IN
         IF r.ok /\ r.keys # <<>> THEN r ELSE Raised

(* What the operator means to type: a token is an index, a range start-end, the
   letter for "all", or some other text. *)
Numerals == 0..MaxNum
RawTexts == { <<"x">>, <<>>, <<"-", "1">>, <<"1", "-">>, <<"a">> }
Tokens ==
    [kind : {"idx"}, a : Numerals, b : {0}, text : {<<>>}]
    \cup [kind : {"range"}, a : Numerals, b : Numerals, text : {<<>>}]
    \cup [kind : {"raw"}, a : {0}, b : {0}, text : RawTexts]
TokenAll == [kind |-> "raw", a |-> 0, b |-> 0, text |-> <<"A">>]
MaxToks == 2
TokenLines == UNION { [1..n -> Tokens] : n \in 1..MaxToks } \cup { <<TokenAll>> }

\* The decimal digits of a number below 100, as typed.
Numeral(n) == IF n < 10 THEN <<Digit[n + 1]>> ELSE <<Digit[(n \div 10) + 1], Digit[(n % 10) + 1]>>

Typed(tok) ==
    IF tok.kind = "idx" THEN Numeral(tok.a)
    ELSE IF tok.kind = "range" THEN Numeral(tok.a) \o <<"-">> \o Numeral(tok.b)
    ELSE tok.text

RECURSIVE TypedLine(_)
TypedLine(toks) ==
    IF Len(toks) = 1 THEN Typed(toks[1])
    ELSE TypedLine(SubSeq(toks, 1, Len(toks) - 1)) \o <<",">> \o Typed(toks[Len(toks)])

\* A decorator runs at import: @Registry.register(key, order). Keys are first
\* registered in the order of KeySeq; a registered key may be registered again.
Register(k, o) ==
    /\ menu = "import"
    /\ HasKey(features, k) \/ (Len(features) < Len(KeySeq) /\ k = KeySeq[Len(features) + 1])
    /\ features' = Registry_register(features, k, o)
    /\ UNCHANGED <<input, intent, menu, selected, ledgerVars, retryVars, appVars, auxVars>>

\* App.run reaches _menu: the list is displayed and the prompt appears.
MenuShow ==
    /\ menu = "import"
    /\ menu' = "prompt"
    /\ UNCHANGED <<features, input, intent, selected, ledgerVars, retryVars, appVars, auxVars>>

\* The operator types a line at the prompt; _menu returns the selection, which
\* App.run stores in self.selected, or logs that the input is invalid and prompts again.
MenuInput ==
    /\ menu = "prompt"
    /\ LET sorted_features == SortedByOrder(features) IN
       \E toks \in TokenLines :
         LET line == TypedLine(toks)
             r == menu_choice(features, sorted_features, line)
         IN /\ input' = line
            /\ intent' = toks
            /\ IF r.ok
               THEN menu' = "returned" /\ selected' = r.keys
               ELSE menu' = "rejected" /\ UNCHANGED selected
    /\ UNCHANGED <<features, ledgerVars, retryVars, appVars, auxVars>>

\* After "invalid input" the while loop comes round to the prompt again.
MenuAgain ==
    /\ menu = "rejected"
    /\ menu' = "prompt" /\ input' = <<>> /\ intent' = <<>>
    /\ UNCHANGED <<features, selected, ledgerVars, retryVars, appVars, auxVars>>

InitMenu ==
    /\ features \in {<<>>, ProgramFeatures}
    /\ input = <<>> /\ intent = <<>> /\ menu = "import" /\ selected = <<>>
    /\ lists = << <<>> >> /\ cur = 1 /\ disk = {} /\ disk0 = {} /\ cl = ClIdle
    /\ rms = {} /\ ops = <<>>
    /\ rt = RetryIdle /\ op = [fails |-> 0, calls |-> 0]
    /\ AppIdle

NextMenu ==
    \/ \E k \in {KeySeq[j] : j \in 1..Len(KeySeq)} : \E o \in Orders : Register(k, o)
    \/ MenuShow
    \/ MenuInput
    \/ MenuAgain

SpecMenu == InitMenu /\ [][NextMenu]_vars

\* The number of tasks displayed, and the key displayed at position n.
Displayed == Len(features)
DisplayedKey(n) == SortedByOrder(features)[n].key

\* A token that names displayed tasks: an index in 1..n or a range with
\* 1 <= start <= end <= n.
ValidToken(tok) ==
    \/ tok.kind = "idx" /\ 1 <= tok.a /\ tok.a <= Displayed
    \/ tok.kind = "range" /\ 1 <= tok.a /\ tok.a <= tok.b /\ tok.b <= Displayed

Positions(tok) ==
    IF tok.kind = "idx" THEN <<tok.a>> ELSE [j \in 1..(tok.b - tok.a + 1) |-> tok.a + j - 1]

RECURSIVE PositionsOf(_)
PositionsOf(toks) ==
    IF toks = <<>> THEN <<>>
    ELSE PositionsOf(SubSeq(toks, 1, Len(toks) - 1)) \o Positions(toks[Len(toks)])

\* A line was typed and it is not the letter for "all".
TypedSelection == intent # <<>> /\ upper(strip(input)) # <<"A">>

\* C8 (as claimed): a line that is not 'A' and holds a token that is neither an index
\* in 1..n nor a range with 1 <= start <= end <= n is rejected and the selection
\* stays as it was.
C8_InvalidRejected ==
    (TypedSelection /\ \E j \in 1..Len(intent) : ~ValidToken(intent[j]))
        => (menu = "rejected" /\ selected = <<>>)

\* C9: a line of valid indices and ranges is accepted and yields the keys of the
\* tasks displayed at those positions, in the order written.
C9_ValidSelection ==
    (TypedSelection /\ \A j \in 1..Len(intent) : ValidToken(intent[j]))
        => /\ menu = "returned"
           /\ selected = [j \in 1..Len(PositionsOf(intent)) |-> DisplayedKey(PositionsOf(intent)[j])]

\* C9 witness: against the program's registry, an index followed by a range
\* ("1,3-4" is checked with the numerals raised) has returned three tasks.
C9_Witness ==
    /\ features = ProgramFeatures
    /\ input = <<"1", ",", "2", "-", "3">>
    /\ menu = "returned"
    /\ selected = <<"mirrors", "update", "base">>

\* C10 (as claimed): 'A' yields every registered key exactly once, in ascending order
\* of the order key.
C10_AllSorted ==
    (menu = "returned" /\ intent # <<>> /\ upper(strip(input)) = <<"A">>)
        => /\ Len(selected) = Len(features)
           /\ \A j \in 1..Len(features) :
                 Cardinality({m \in 1..Len(selected) : selected[m] = features[j].key}) = 1
           /\ \A j \in 1..Len(selected) : \A m \in j..Len(selected) :
                 OrderOf(features, selected[j]) <= OrderOf(features, selected[m])

(***************************************************************************)
(* TaskTracker and Feature.run_with_tracking                               *)
(***************************************************************************)
\* str(e)[:50]
MsgLimit == 50

Truncate_Whole(s, n) == s

\* s[:n]
Truncate(s, n) == IF Len(s) <= n THEN s ELSE SubSeq(s, 1, n)

\* TaskTracker.record: append one dict.
record(tasks, name, st, message, duration) ==
    Append(tasks, [name |-> name, status |-> st, message |-> message, duration |-> duration])

\* What execute did: it returned out.value, or it raised an Exception whose str() is
\* out.msg.
Returns(value) == [raised |-> FALSE, value |-> value, msg |-> <<>>]
Raises(msg) == [raised |-> TRUE, value |-> "None", msg |-> msg]

\* run_with_tracking around an execute that ended as `out` after `duration`: the record
\* it appends, and what it hands to its caller (a normal return, or the exception
\* raised again).
run_with_tracking(tasks, name, out, duration) ==
    IF out.raised
    THEN [tasks |-> record(tasks, name, "Failed", Truncate(out.msg, MsgLimit), duration),
          propagated |-> <<"raised", out.msg>>]
    ELSE IF out.value = "skipped"
         THEN [tasks |-> record(tasks, name, "Skipped", <<>>, duration),
               propagated |-> <<"returned">>]
         ELSE [tasks |-> record(tasks, name, "Success", <<>>, duration),
               propagated |-> <<"returned">>]

CountStatus_All(tasks, st) == Len(tasks)

\* sum(1 for t in self._tasks if t['status'] == st)
CountStatus(tasks, st) == Cardinality({j \in 1..Len(tasks) : tasks[j].status = st})

\* sum(t['duration'] for t in self._tasks)
RECURSIVE SumDuration(_)
SumDuration(tasks) ==
    IF tasks = <<>> THEN 0
    ELSE SumDuration(SubSeq(tasks, 1, Len(tasks) - 1)) + tasks[Len(tasks)].duration

\* print_summary: nothing is printed for an empty tracker; otherwise the totals line
\* carries the number of records, the three counts and the total duration.
print_summary(tasks) ==
    IF tasks = <<>> THEN TkIdle.summary
    ELSE [printed |-> TRUE,
          total |-> Len(tasks),
          success_count |-> CountStatus(tasks, "Success"),
          skipped_count |-> CountStatus(tasks, "Skipped"),
          failed_count |-> CountStatus(tasks, "Failed"),
          total_duration |-> SumDuration(tasks)]

(***************************************************************************)
(* A run of the selected plan: App._execute, App._done, the tasks that     *)
(* touch the ledger (yay, zsh-plugins) or catch everything (github), the   *)
(* signal handler and the exit hook.                                       *)
(***************************************************************************)
MaxSel == 2
TaskKeys == {"zsh-plugins", "yay", "github"}

\* @retry(times=3, delay=2) on run.
RunTimes == 3
\* sys.exit(130) in signal_handler.
ExitCancelled == 130

TmpYay == "tmp_yay"
BinYay == "bin/yay"
BinGh == "bin/gh"
\* custom_path / name
PluginPath(name) == name

Paths(items) == {items[j].path : j \in 1..Len(items)}

PlanOf_AsTyped(sel) == sel

\* features.sort(key=lambda x: x[1]._order) over the selected keys.
PlanOf(sel) ==
    Keys(SortedByOrder([j \in 1..Len(sel) |->
                          [key |-> sel[j], order |-> OrderOf(features, sel[j])]]))

\* The paths a task (or its sub-units) registers in the ledger.
TaskPaths(key) ==
    CASE key = "yay" -> {TmpYay}
      [] key = "zsh-plugins" -> {PluginPath(p) : p \in Plugins}
      [] key = "github" -> {}

\* The first step of a task's execute.
FirstPc(key) ==
    CASE key = "yay" -> "yay:exists"
      [] key = "github" -> "gh:exists"
      [] key = "zsh-plugins" -> "pl:net"

\* The commands inside ConfigureGitHub's try block, in order.
GhTryPcs == {"gh:api_name", "gh:api_email", "gh:config_name", "gh:config_email"}

\* The main thread executes its own code (it is not inside signal_handler).
MainRuns == sig # "handler"

\* The outcome of a command the model does not look into.
Out(ok) == [ok |-> ok, val |-> IF ok THEN "done" ELSE "CalledProcessError"]

\* _execute up to the for loop: the selected keys sorted by order.
ExecuteSort ==
    /\ MainRuns /\ pc = "execute"
    /\ plan' = PlanOf(selected)
    /\ status' = [j \in 1..Len(selected) |-> "Pending"]
    /\ pc' = "loop"
    /\ UNCHANGED <<ledgerVars, retryVars, menuVars, auxVars, i, res, tracker, workers, sig,
                   exitStatus, hist>>

\* The head of the for loop: the next task starts, or the loop is over and run()
\* goes on to _done.
ExecuteNext ==
    /\ MainRuns /\ pc = "loop"
    /\ IF i > Len(plan)
       THEN /\ pc' = "done"
            /\ UNCHANGED <<status, hist>>
       ELSE /\ pc' = FirstPc(plan[i])
            /\ status' = [status EXCEPT ![i] = "Running"]
            /\ hist' = [hist EXCEPT !.startedAfterSignal = @ \/ sig # "none"]
    /\ res' = "none"
    /\ UNCHANGED <<ledgerVars, retryVars, menuVars, auxVars, plan, i, tracker, workers, sig,
                   exitStatus>>

\* run_with_tracking records the outcome; a raised exception is re-raised into
\* _execute's except clause, which prompts.
Track ==
    /\ MainRuns /\ pc = "track"
    /\ LET out == CASE res = "skipped" -> Returns("skipped")
                    [] res = "ok" -> Returns("None")
                    [] res = "raised" -> Raises(<<>>)
           r == run_with_tracking(tracker, plan[i], out, 0)
       IN /\ tracker' = r.tasks
          /\ status' = [status EXCEPT ![i] = r.tasks[Len(r.tasks)].status]
          /\ hist' = IF r.tasks[Len(r.tasks)].status = "Success"
                     THEN [hist EXCEPT !.atSuccess = @ \cup (Paths(Items) \cap TaskPaths(plan[i]))]
                     ELSE hist
    /\ IF res = "raised"
       THEN pc' = "prompt" /\ i' = i
       ELSE pc' = "loop" /\ i' = i + 1
    /\ rt' = RetryIdle
    /\ UNCHANGED <<ledgerVars, op, menuVars, auxVars, plan, res, workers, sig, exitStatus>>

lower_Same(s) == s

\* str.lower(), on the letters the prompt can be given here.
lower(s) == [j \in 1..Len(s) |-> IF s[j] = "Y" THEN "y" ELSE IF s[j] = "N" THEN "n" ELSE s[j]]

\* What the operator types at "继续? (y/n): ".
Answers == { <<"y">>, <<"Y">>, <<"n">>, <<>> }
\* input() raises EOFError.
EndOfInput == <<"EOF">>

\* The operator's answers that accept going on.
Accepting == { <<"y">>, <<"Y">> }

\* input("继续? (y/n)"): 'y' goes on with the next task, anything else breaks out of
\* the loop, and end of input raises out of run() to the handler that exits with 1.
Prompt ==
    /\ MainRuns /\ pc = "prompt"
    /\ \E typed \in Answers \cup {EndOfInput} :
         LET ans == IF typed = EndOfInput THEN "eof"
                    ELSE IF lower(typed) # <<"y">> THEN "n" ELSE "y"
             seen == [hist EXCEPT !.prompted = @ \cup {i},
                                  !.accepted = IF typed \in Accepting THEN @ \cup {i} ELSE @,
                                  !.declined = IF typed \in Answers \ Accepting
                                               THEN @ \cup {i} ELSE @]
             abort(kind) ==
               IF hist.abort = "none"
               THEN [seen EXCEPT !.abort = kind, !.atAbort = Paths(Items) \cap disk]
               ELSE seen
         IN CASE ans = "y" ->
                   /\ pc' = "loop" /\ i' = i + 1
                   /\ hist' = seen
                   /\ UNCHANGED exitStatus
              [] ans = "n" ->
                   /\ pc' = "done" /\ i' = i
                   /\ hist' = IF i < Len(plan) THEN abort("decline") ELSE seen
                   /\ UNCHANGED exitStatus
              [] ans = "eof" ->
                   /\ pc' = "atexit" /\ i' = i
                   /\ exitStatus' = 1
                   /\ hist' = [abort("uncaught") EXCEPT !.uncaught = TRUE,
                                                          !.atUncaught = Paths(Items) \cap disk]
    /\ UNCHANGED <<ledgerVars, retryVars, menuVars, auxVars, plan, res, status, tracker, workers, sig>>

\* _done: the summary, then cleanup_mgr.clear(); run() returns and the process ends.
Done ==
    /\ MainRuns /\ pc = "done"
    /\ hist' = [hist EXCEPT !.cleared = TRUE, !.atClear = Paths(Items) \cap disk]
    /\ lists' = clear
    /\ exitStatus' = IF exitStatus = -1 THEN 0 ELSE exitStatus
    /\ pc' = "atexit"
    /\ UNCHANGED <<cur, disk, disk0, cl, rms, ops, retryVars, menuVars, auxVars, plan, i, res, status,
                   tracker, workers, sig>>

\* cleanup_on_exit: cleanup() only if the ledger is not empty.
AtExit ==
    /\ pc = "atexit"
    /\ IF Items = <<>>
       THEN pc' = "exited" /\ cl' = cl
       ELSE pc' = "atexit:cleanup" /\ cl' = cleanup_enter("atexit")
    /\ UNCHANGED <<lists, cur, disk, disk0, rms, ops, retryVars, menuVars, auxVars, plan, i, res,
                   status, tracker, workers, sig, exitStatus, hist>>

AtExitCleanup ==
    /\ pc = "atexit:cleanup" /\ cl.ret = "atexit"
    /\ \/ cleanup_item /\ pc' = pc
       \/ cleanup_end /\ pc' = pc
       \/ /\ cl.state = "returned"
          /\ cl' = ClIdle
          /\ pc' = "exited"
          /\ UNCHANGED <<lists, cur, disk, rms>>
    /\ UNCHANGED <<disk0, ops, retryVars, menuVars, auxVars, plan, i, res, status, tracker, workers,
                   sig, exitStatus, hist>>

(* InstallYay *)
\* exists('yay') skips the task; otherwise the build directory is registered.
YayExists ==
    /\ MainRuns /\ pc = "yay:exists"
    /\ IF BinYay \in disk
       THEN /\ res' = "skipped" /\ pc' = "track"
            /\ UNCHANGED <<lists, hist>>
       ELSE /\ lists' = register(cur, Entry(TmpYay, "dir", "user"))
            /\ hist' = [hist EXCEPT !.registered = @ \cup {TmpYay}]
            /\ pc' = "yay:net" /\ res' = res
    /\ UNCHANGED <<cur, disk, disk0, cl, rms, ops, retryVars, menuVars, auxVars, plan, i, status,
                   tracker, workers, sig, exitStatus>>

\* check_network_connectivity(): no network raises before the build starts.
YayNet ==
    /\ MainRuns /\ pc = "yay:net"
    /\ \E ok \in BOOLEAN :
         IF ok
         THEN pc' = "yay:run" /\ rt' = retry_enter(RunTimes) /\ res' = res
         ELSE pc' = "track" /\ res' = "raised" /\ rt' = rt
    /\ UNCHANGED <<ledgerVars, op, menuVars, auxVars, plan, i, status, tracker, workers, sig,
                   exitStatus, hist>>

\* One attempt of run(script): a success installs yay and leaves no build directory;
\* a failure leaves the directory as the script had it when it stopped (untouched,
\* removed, or created).
YayRun ==
    /\ MainRuns /\ pc = "yay:run"
    /\ \E ok \in BOOLEAN :
         LET r == retry_attempt(rt, Out(ok)) IN
         /\ rt' = r
         /\ IF ok
            THEN disk' = (disk \ {TmpYay}) \cup {BinYay}
            ELSE \E d \in {disk, disk \ {TmpYay}, disk \cup {TmpYay}} : disk' = d
         /\ CASE r.state = "returned" -> pc' = "yay:unreg" /\ res' = res
              [] r.state = "raised" -> pc' = "track" /\ res' = "raised"
              [] OTHER -> pc' = pc /\ res' = res
    /\ UNCHANGED <<lists, cur, disk0, cl, rms, ops, op, menuVars, auxVars, plan, i, status, tracker,
                   workers, sig, exitStatus, hist>>

\* After the successful build the entry is taken off the ledger.
YayUnregister ==
    /\ MainRuns /\ pc = "yay:unreg"
    /\ LET b == Rebind(WithoutPaths(Items, {TmpYay})) IN lists' = b.lists /\ cur' = b.cur
    /\ hist' = [hist EXCEPT !.claimed = @ \cup ({TmpYay} \cap disk)]
    /\ res' = "ok" /\ pc' = "track"
    /\ UNCHANGED <<disk, disk0, cl, rms, ops, retryVars, menuVars, auxVars, plan, i, status, tracker,
                   workers, sig, exitStatus>>

(* ConfigureGitHub *)
GhExists ==
    /\ MainRuns /\ pc = "gh:exists"
    /\ IF BinGh \in disk
       THEN pc' = "gh:auth" /\ rt' = rt
       ELSE pc' = "gh:install" /\ rt' = retry_enter(RunTimes)
    /\ UNCHANGED <<ledgerVars, op, menuVars, auxVars, plan, i, res, status, tracker, workers, sig,
                   exitStatus, hist>>

\* One attempt of run("pacman -S --noconfirm gh").
GhInstall ==
    /\ MainRuns /\ pc = "gh:install"
    /\ \E ok \in BOOLEAN :
         LET r == retry_attempt(rt, Out(ok)) IN
         /\ rt' = r
         /\ disk' = IF ok THEN disk \cup {BinGh} ELSE disk
         /\ CASE r.state = "returned" -> pc' = "gh:auth" /\ res' = res
              [] r.state = "raised" -> pc' = "track" /\ res' = "raised"
              [] OTHER -> pc' = pc /\ res' = res
    /\ UNCHANGED <<lists, cur, disk0, cl, rms, ops, op, menuVars, auxVars, plan, i, status, tracker,
                   workers, sig, exitStatus, hist>>

\* run("gh auth login", check=False): whatever its exit status, the task goes on
\* into the try block.
GhAuth ==
    /\ MainRuns /\ pc = "gh:auth"
    /\ pc' = "gh:api_name"
    /\ rt' = retry_enter(RunTimes)
    /\ UNCHANGED <<ledgerVars, op, menuVars, auxVars, plan, i, res, status, tracker, workers, sig,
                   exitStatus, hist>>

\* One attempt of a command of the try block. A command that fails for good raises
\* into the bare except, which logs and lets execute return; an empty name skips the
\* two git config commands.
GhTry ==
    /\ MainRuns /\ pc \in GhTryPcs
    /\ \E ok \in BOOLEAN : \E name \in BOOLEAN :
         LET r == retry_attempt(rt, Out(ok)) IN
         CASE r.state = "loop" -> rt' = r /\ pc' = pc /\ res' = res
           [] r.state = "raised" -> rt' = r /\ pc' = "track" /\ res' = "ok"
           [] r.state = "returned" ->
                CASE pc = "gh:api_name" -> rt' = retry_enter(RunTimes) /\ pc' = "gh:api_email" /\ res' = res
                  [] pc = "gh:api_email" ->
                       IF name
                       THEN rt' = retry_enter(RunTimes) /\ pc' = "gh:config_name" /\ res' = res
                       ELSE rt' = r /\ pc' = "track" /\ res' = "ok"
                  [] pc = "gh:config_name" -> rt' = retry_enter(RunTimes) /\ pc' = "gh:config_email" /\ res' = res
                  [] pc = "gh:config_email" -> rt' = r /\ pc' = "track" /\ res' = "ok"
    /\ UNCHANGED <<ledgerVars, op, menuVars, auxVars, plan, i, status, tracker, workers, sig,
                   exitStatus, hist>>

(* InstallZshPlugins *)
AllWorkers_Some(state) == \E p \in Plugins : workers[p].pc = state

\* Every future has the given state.
AllWorkers(state) == \A p \in Plugins : workers[p].pc = state

PlNet ==
    /\ MainRuns /\ pc = "pl:net"
    /\ \E ok \in BOOLEAN :
         IF ok
         THEN pc' = "pl:submit" /\ res' = res
         ELSE pc' = "track" /\ res' = "raised"
    /\ UNCHANGED <<ledgerVars, retryVars, menuVars, auxVars, plan, i, status, tracker, workers, sig,
                   exitStatus, hist>>

\* executor.submit for every plugin: one worker thread each.
PlSubmit ==
    /\ MainRuns /\ pc = "pl:submit"
    /\ workers' = [p \in Plugins |-> [WIdle EXCEPT !.pc = "start"]]
    /\ pc' = "pl:wait"
    /\ UNCHANGED <<ledgerVars, retryVars, menuVars, auxVars, plan, i, res, status, tracker, sig,
                   exitStatus, hist>>

\* as_completed has yielded every future (a worker never raises: it returns 'error');
\* the with block ends and execute returns.
PlWait ==
    /\ MainRuns /\ pc = "pl:wait"
    /\ AllWorkers("done")
    /\ hist' = [hist EXCEPT !.subResults = [p \in Plugins |-> workers[p].result]]
    /\ workers' = [p \in Plugins |-> WIdle]
    /\ res' = "ok" /\ pc' = "track"
    /\ UNCHANGED <<ledgerVars, retryVars, menuVars, auxVars, plan, i, status, tracker, sig,
                   exitStatus>>

\* SystemExit left the with block: the executor's shutdown has waited for the
\* workers, and the process exits.
PlJoin ==
    /\ MainRuns /\ pc = "pl:join"
    /\ AllWorkers("done")
    /\ pc' = "atexit"
    /\ exitStatus' = ExitCancelled
    /\ UNCHANGED <<ledgerVars, retryVars, menuVars, auxVars, plan, i, res, status, tracker, workers,
                   sig, hist>>

WorkerDone(w, result) == [w EXCEPT !.pc = "done", !.result = result, !.rt = RetryIdle]

\* _install_plugin, first step: an existing plugin directory is skipped; otherwise
\* register() is entered and loads the list bound to _cleanup_items.
WStart(p) ==
    /\ workers[p].pc = "start"
    /\ workers' = [workers EXCEPT ![p] =
                      IF PluginPath(p) \in disk
                      THEN WorkerDone(@, "skip")
                      ELSE [@ EXCEPT !.pc = "append", !.ref = cur]]
    /\ UNCHANGED <<ledgerVars, retryVars, menuVars, auxVars, plan, i, pc, res, status, tracker, sig,
                   exitStatus, hist>>

\* register(): the append, on the list object loaded before.
WAppend(p) ==
    /\ workers[p].pc = "append"
    /\ LET after == [workers EXCEPT ![p] = [@ EXCEPT !.pc = "clone", !.ref = 0,
                                                      !.rt = retry_enter(RunTimes)]]
       IN /\ workers' = after
          /\ lists' = Collect(register(workers[p].ref, Entry(PluginPath(p), "dir", "user")),
                              {cur} \cup HeldRefsOf(after, cl))
    /\ hist' = [hist EXCEPT !.registered = @ \cup {PluginPath(p)}]
    /\ UNCHANGED <<cur, disk, disk0, cl, rms, ops, retryVars, menuVars, auxVars, plan, i, pc, res,
                   status, tracker, sig, exitStatus>>

\* One attempt of run("git clone ..."): a success leaves the plugin directory, a
\* failure may leave what was cloned so far.
WClone(p) ==
    /\ workers[p].pc = "clone"
    /\ \E ok \in BOOLEAN : \E partial \in BOOLEAN :
         LET r == retry_attempt(workers[p].rt, Out(ok)) IN
         /\ disk' = IF ok \/ partial THEN disk \cup {PluginPath(p)} ELSE disk
         /\ workers' = [workers EXCEPT ![p] =
                          CASE r.state = "returned" -> [@ EXCEPT !.pc = "unreg", !.rt = r]
                            [] r.state = "raised" -> WorkerDone(@, "error")
                            [] OTHER -> [@ EXCEPT !.rt = r]]
    /\ UNCHANGED <<lists, cur, disk0, cl, rms, ops, retryVars, menuVars, auxVars, plan, i, pc, res,
                   status, tracker, sig, exitStatus, hist>>

\* The unregister, first half: the list comprehension reads the list bound now and
\* builds the filtered copy.
WUnregister(p) ==
    /\ workers[p].pc = "unreg"
    /\ workers' = [workers EXCEPT ![p] =
                      [@ EXCEPT !.pc = "store", !.snap = WithoutPaths(Items, {PluginPath(p)})]]
    /\ UNCHANGED <<ledgerVars, retryVars, menuVars, auxVars, plan, i, pc, res, status, tracker, sig,
                   exitStatus, hist>>

\* The unregister, second half: _cleanup_items is rebound to the copy.
WStore(p) ==
    /\ workers[p].pc = "store"
    /\ LET b == Rebind(workers[p].snap) IN lists' = b.lists /\ cur' = b.cur
    /\ hist' = [hist EXCEPT !.claimed = @ \cup ({PluginPath(p)} \cap disk)]
    /\ workers' = [workers EXCEPT ![p] = [WorkerDone(@, "success") EXCEPT !.snap = <<>>]]
    /\ UNCHANGED <<disk, disk0, cl, rms, ops, retryVars, menuVars, auxVars, plan, i, pc, res, status,
                   tracker, sig, exitStatus>>

(* signal_handler *)
\* SIGINT or SIGTERM is delivered while run() is executing: the main thread enters
\* signal_handler, which calls cleanup().
Signal ==
    /\ sig = "none"
    /\ pc \in {"execute", "loop", "track", "prompt", "done", "yay:exists", "yay:net",
               "yay:run", "yay:unreg", "gh:exists", "gh:install", "gh:auth", "pl:net",
               "pl:submit", "pl:wait"} \cup GhTryPcs
    /\ sig' = "handler"
    /\ cl' = cleanup_enter("signal")
    /\ hist' = [hist EXCEPT !.abort = IF @ = "none" THEN "signal" ELSE @,
                            !.atAbort = IF hist.abort = "none" THEN Paths(Items) \cap disk ELSE @,
                            !.claimedAtSignal = hist.claimed]
    /\ UNCHANGED <<lists, cur, disk, disk0, rms, ops, retryVars, menuVars, auxVars, plan, i, pc, res,
                   status, tracker, workers, exitStatus>>

SignalCleanup ==
    /\ sig = "handler" /\ cl.ret = "signal"
    /\ \/ cleanup_item
       \/ cleanup_end
    /\ UNCHANGED <<disk0, ops, retryVars, menuVars, auxVars, appVars>>

\* sys.exit(130) raises SystemExit where the main thread was interrupted: inside
\* ConfigureGitHub's try block the bare except catches it and the run goes on; in the
\* executor's with block the workers are waited for first; anywhere else it unwinds
\* run() and the process exits with 130.
SignalExit ==
    /\ sig = "handler" /\ cl.ret = "signal" /\ cl.state = "returned"
    /\ cl' = ClIdle
    /\ CASE pc \in GhTryPcs ->
              /\ sig' = "swallowed" /\ pc' = "track" /\ res' = "ok"
              /\ UNCHANGED exitStatus
         [] pc = "pl:wait" ->
              /\ sig' = "exiting" /\ pc' = "pl:join"
              /\ UNCHANGED <<res, exitStatus>>
         [] OTHER ->
              /\ sig' = "exiting" /\ pc' = "atexit" /\ exitStatus' = ExitCancelled
              /\ UNCHANGED res
    /\ lists' = Collect(lists, {cur} \cup HeldRefsOf(workers, ClIdle))
    /\ UNCHANGED <<cur, disk, disk0, rms, ops, retryVars, menuVars, auxVars, plan, i, status,
                   tracker, workers, hist>>

\* What a run finds installed: nothing (a fresh system), or what an earlier run
\* that got as far as the first plugin has left.
InstalledAtStart == { {}, {BinYay, BinGh, PluginPath("zsh-autosuggestions")} }

\* The selections a run is started with: up to MaxSel of the modelled tasks, repeats
\* allowed as the menu allows them, the plugin task at most once.
Selections ==
    {s \in UNION {[1..n -> TaskKeys] : n \in 1..MaxSel} :
        \A j \in DOMAIN s : \A k \in DOMAIN s : (s[j] = "zsh-plugins" /\ s[k] = "zsh-plugins") => j = k}

\* The menu has returned a selection; nothing is registered yet.
Init ==
    /\ features = ProgramFeatures /\ input = <<>> /\ intent = <<>> /\ menu = "returned"
    /\ selected \in Selections
    /\ lists = << <<>> >> /\ cur = 1
    /\ disk \in InstalledAtStart /\ disk0 = disk
    /\ cl = ClIdle /\ rms = {} /\ ops = <<>>
    /\ rt = RetryIdle /\ op = [fails |-> 0, calls |-> 0]
    /\ plan = <<>> /\ i = 1 /\ pc = "execute" /\ res = "none" /\ status = <<>>
    /\ tracker = <<>> /\ workers = [p \in Plugins |-> WIdle] /\ sig = "none"
    /\ exitStatus = -1 /\ hist = HistNone
    /\ tk = TkIdle /\ cx = CxIdle /\ logs = <<>> /\ host = HostIdle

Next ==
    \/ ExecuteSort
    \/ ExecuteNext
    \/ Track
    \/ Prompt
    \/ Done
    \/ AtExit
    \/ AtExitCleanup
    \/ YayExists
    \/ YayNet
    \/ YayRun
    \/ YayUnregister
    \/ GhExists
    \/ GhInstall
    \/ GhAuth
    \/ GhTry
    \/ PlNet
    \/ PlSubmit
    \/ PlWait
    \/ PlJoin
    \/ \E p \in Plugins : WStart(p)
    \/ \E p \in Plugins : WAppend(p)
    \/ \E p \in Plugins : WClone(p)
    \/ \E p \in Plugins : WUnregister(p)
    \/ \E p \in Plugins : WStore(p)
    \/ Signal
    \/ SignalCleanup
    \/ SignalExit

Spec == Init /\ [][Next]_vars

Terminal == {"Success", "Skipped", "Failed"}

\* C1 (as claimed): when the process has exited after an abort (the operator
\* declined, an interrupt arrived, or a failure went uncaught), every artifact that was
\* registered and on disk at the abort has been deleted (a delete command that itself
\* failed aside); and clear() has run only if every task of the plan had ended.
C1_AbortCleansUp ==
    pc = "exited" =>
        /\ hist.abort # "none" => \A p \in hist.atAbort : p \notin disk \/ RmFailed(p)
        /\ hist.cleared => \A j \in 1..Len(status) : status[j] \in Terminal

\* C2 (as claimed): once an interrupt has been delivered during the plan, no task goes
\* from Pending to Running any more, and the process exits with status 130.
C2_InterruptStops ==
    (pc = "exited" /\ sig # "none") =>
        /\ exitStatus = ExitCancelled
        /\ ~hist.startedAfterSignal

\* C3 (as claimed): when a plan of several tasks was interrupted, at exit no artifact
\* that was registered and never claimed exists on disk (a delete command that itself
\* failed aside), and every artifact claimed before the interrupt still exists.
C3_InterruptLeavesNothing ==
    (pc = "exited" /\ sig # "none" /\ Len(plan) > 1) =>
        /\ \A p \in hist.registered \ hist.claimed : p \notin disk \/ RmFailed(p)
        /\ \A p \in hist.claimedAtSignal : p \in disk

\* C4 (as claimed): while the plugin workers run (and no interrupt has emptied the
\* ledger), the entry of every worker that has registered and not yet unregistered
\* is in the ledger.
C4_NoEntryLost ==
    (sig = "none" /\ pc = "pl:wait") =>
        \A p \in Plugins :
            workers[p].pc \in {"clone", "unreg", "store"} => PluginPath(p) \in Paths(Items)

\* C7 (as claimed): when _done calls clear(), the ledger holds no entry whose artifact
\* exists on disk.
C7_NothingTemporaryAtClear ==
    hist.cleared => hist.atClear = {}

\* C11 (as claimed): within one run no task key is started again after a task with that
\* key has reached a terminal state.
C11_EachKeyOnce ==
    \A j \in 1..Len(status) : \A k \in 1..Len(status) :
        (j < k /\ plan[j] = plan[k] /\ status[j] \in Terminal) => status[k] = "Pending"

\* C12: the tasks are started one at a time and in ascending order of their order key,
\* whatever order the selection was written in: when a task has started, every task
\* that comes before it in the run has reached a terminal state, no task of higher
\* order has started before it, and at most one task is Running.
C12_AscendingSequential ==
    /\ \A j \in 1..Len(status) : \A k \in 1..Len(status) :
          (j < k /\ status[k] # "Pending") =>
              /\ status[j] \in Terminal
              /\ OrderOf(features, plan[j]) <= OrderOf(features, plan[k])
    /\ \A j \in 1..Len(status) :
          status[j] # "Pending" =>
              \A k \in 1..Len(status) :
                  OrderOf(features, plan[k]) < OrderOf(features, plan[j]) => status[k] \in Terminal
    /\ Cardinality({j \in 1..Len(status) : status[j] = "Running"}) <= 1

\* C12 witness: the selection was written github first, yay second; yay has ended and
\* github is running.
C12_Witness ==
    /\ selected = <<"github", "yay">>
    /\ plan = <<"yay", "github">>
    /\ status = <<"Success", "Running">>

\* The place of key k in the registry (dict order: the order of first registration).
RegisteredAt(k) == CHOOSE j \in 1..Len(features) : features[j].key = k

\* C13: the list _menu displays and resolves indices against holds every registered
\* key once, in ascending order of the order key, keys of equal order in the order
\* they were registered; and an index typed at the prompt selects the task displayed
\* under that index.
C13_EnumerationStable ==
    LET sorted_features == SortedByOrder(features) IN
    /\ Len(sorted_features) = Len(features)
    /\ \A j \in 1..Len(features) :
          Cardinality({m \in 1..Len(sorted_features) : sorted_features[m] = features[j]}) = 1
    /\ \A a \in 1..Len(sorted_features) : \A b \in 1..Len(sorted_features) :
          a < b =>
             /\ sorted_features[a].order <= sorted_features[b].order
             /\ sorted_features[a].order = sorted_features[b].order
                   => RegisteredAt(sorted_features[a].key) < RegisteredAt(sorted_features[b].key)
    /\ (menu = "returned" /\ Len(intent) = 1 /\ intent[1].kind = "idx" /\ ValidToken(intent[1]))
          => selected = <<sorted_features[intent[1].a].key>>

\* C13 witness: two keys of equal order registered before a key of lower order; index
\* 2 selects the first registered of the two.
C13_Witness ==
    /\ features = << [key |-> "k1", order |-> 2], [key |-> "k2", order |-> 2],
                     [key |-> "k3", order |-> 1] >>
    /\ menu = "returned"
    /\ input = <<"2">>
    /\ selected = <<"k1">>

\* The tasks of the plan that have been started.
Started == {j \in 1..Len(status) : status[j] # "Pending"}

\* C14 (as claimed): whenever no task is in the middle of its execution (between tasks,
\* at the prompt, in _done, at exit), the tracker holds exactly one record per started
\* task, in the order the tasks were started; also when the task was ended by a signal.
C14_OneRecordPerStarted ==
    pc \in {"loop", "prompt", "done", "atexit", "atexit:cleanup", "exited"} =>
        /\ Len(tracker) = Cardinality(Started)
        /\ \A j \in 1..Len(tracker) : j \in Started /\ tracker[j].name = plan[j]
(***************************************************************************)
(* The tracker driven call by call: tasks end in every way execute can end *)
(* and the summary is printed.                                             *)
(***************************************************************************)
MaxRecords == 3
MaxOver == 1
MaxDuration == 1

\* An exception message of n characters (each character is its position).
Message(n) == [j \in 1..n |-> j]

\* Messages that are empty, exactly at the limit, and over it.
MsgLens == {0} \cup (MsgLimit..(MsgLimit + MaxOver))

Outcomes ==
    {Returns(v) : v \in {"skipped", "None", "Skipped"}} \cup {Raises(Message(n)) : n \in MsgLens}

\* A task is run under run_with_tracking.
TrackerRun ==
    /\ ~tk.summary.printed /\ Len(tracker) < MaxRecords
    /\ \E out \in Outcomes : \E d \in 0..MaxDuration :
         LET r == run_with_tracking(tracker, "yay", out, d) IN
         /\ tracker' = r.tasks
         /\ tk' = [tk EXCEPT !.called = TRUE, !.last = out, !.propagated = r.propagated]
    /\ UNCHANGED <<ledgerVars, retryVars, menuVars, plan, i, pc, res, status, workers, sig,
                   exitStatus, hist, cx, logs, host>>

\* _done prints the summary.
TrackerSummary ==
    /\ ~tk.summary.printed /\ tracker # <<>>
    /\ tk' = [tk EXCEPT !.summary = print_summary(tracker)]
    /\ UNCHANGED <<ledgerVars, retryVars, menuVars, appVars, cx, logs, host>>

InitTracker ==
    /\ lists = << <<>> >> /\ cur = 1 /\ disk = {} /\ disk0 = {} /\ cl = ClIdle
    /\ rms = {} /\ ops = <<>>
    /\ rt = RetryIdle /\ op = [fails |-> 0, calls |-> 0]
    /\ MenuIdle /\ AppIdle

NextTracker ==
    \/ TrackerRun
    \/ TrackerSummary

SpecTracker == InitTracker /\ [][NextTracker]_vars

LastRecord == tracker[Len(tracker)]

\* C15: run_with_tracking records Failed, with the message cut to at most 50
\* characters, exactly when execute raised, and hands the same exception on to its
\* caller; it records Skipped exactly when execute returned 'skipped' and Success for
\* any other return; every raised failure is a Failed record counted in the summary.
C15_TrackedOutcome ==
    tk.called =>
        /\ LastRecord.status = "Failed" <=> tk.last.raised
        /\ LastRecord.status = "Skipped" <=> (~tk.last.raised /\ tk.last.value = "skipped")
        /\ LastRecord.status = "Success" <=> (~tk.last.raised /\ tk.last.value # "skipped")
        /\ tk.last.raised =>
              /\ Len(LastRecord.message) <= MsgLimit
              /\ Len(LastRecord.message) <= Len(tk.last.msg)
              /\ \A j \in 1..Len(LastRecord.message) : LastRecord.message[j] = tk.last.msg[j]
              /\ Len(tk.last.msg) <= MsgLimit => LastRecord.message = tk.last.msg
              /\ tk.propagated = <<"raised", tk.last.msg>>
        /\ ~tk.last.raised => tk.propagated = <<"returned">>
        /\ tk.summary.printed => tk.summary.failed_count >= 1 \/ ~tk.last.raised

\* C15 witness: execute raised a message longer than the limit; 50 characters were
\* recorded and the whole exception propagated.
C15_Witness ==
    /\ tk.called /\ tk.last.raised
    /\ Len(tk.last.msg) = MsgLimit + 1
    /\ Len(LastRecord.message) = MsgLimit
    /\ tk.propagated = <<"raised", tk.last.msg>>

\* The durations of the records added up duration by duration: d times the number of
\* records that took d, for d = 0..n.
RECURSIVE DurationsUpTo(_)
DurationsUpTo(n) ==
    IF n = 0 THEN 0
    ELSE DurationsUpTo(n - 1) + n * Cardinality({j \in 1..Len(tracker) : tracker[j].duration = n})

\* C16: the summary's three counts are the numbers of records with each status, they
\* add up to the number of records, and the total duration is the sum of the
\* recorded durations.
C16_SummaryAccurate ==
    tk.summary.printed =>
        /\ tk.summary.success_count = Cardinality({j \in 1..Len(tracker) : tracker[j].status = "Success"})
        /\ tk.summary.skipped_count = Cardinality({j \in 1..Len(tracker) : tracker[j].status = "Skipped"})
        /\ tk.summary.failed_count = Cardinality({j \in 1..Len(tracker) : tracker[j].status = "Failed"})
        /\ tk.summary.success_count + tk.summary.skipped_count + tk.summary.failed_count
              = Len(tracker)
        /\ tk.summary.total = Len(tracker)
        /\ tk.summary.total_duration = DurationsUpTo(MaxDuration)

\* C16 witness: three records Success, Skipped, Failed; the counts read 1/1/1 and the
\* total is the sum of the three durations.
C16_Witness ==
    /\ tk.summary.printed
    /\ Len(tracker) = 3
    /\ tracker[1].status = "Success" /\ tracker[2].status = "Skipped"
    /\ tracker[3].status = "Failed"
    /\ tracker[1].duration = 1 /\ tracker[2].duration = 0 /\ tracker[3].duration = 1
    /\ tk.summary.success_count = 1 /\ tk.summary.skipped_count = 1
    /\ tk.summary.failed_count = 1
    /\ tk.summary.total_duration = 2

\* C17 (as claimed): a task whose execute ended in Success and is executed again right
\* after, on the same context and host, ends in Skipped.
C17_SecondRunSkipped ==
    \A j \in 1..Len(status) :
        (/\ sig = "none"
         /\ j + 1 <= Len(status)
         /\ plan[j] = plan[j + 1]
         /\ status[j] = "Success"
         /\ status[j + 1] \in Terminal)
            => status[j + 1] = "Skipped"

(***************************************************************************)
(* Context: _collect_data resolves the home directory, CreateUser creates  *)
(* the user, and a task that needs the identity reads ctx.user_home.       *)
(***************************************************************************)
\* The names the operator may type at the username prompt.
Users == {"alice", "bob", "carol"}

\* user_exists(name): `id name` succeeds.
user_exists(users, name) == name \in users

\* Context._get_home: the output of `eval echo ~name`. The shell expands ~name to the
\* home directory of an existing user and leaves the word as it is for an unknown one.
get_home(users, name) ==
    IF user_exists(users, name) THEN <<"/home/", name>> ELSE <<"~", name>>

\* The username prompt: an empty line prompts again; an existing user is asked about;
\* a new name is taken as it is.
CollectUsername ==
    /\ cx.pc = "username"
    /\ \E name \in Users \cup {""} :
         cx' = IF name = "" THEN cx
               ELSE IF user_exists(cx.users, name)
                    THEN [cx EXCEPT !.pc = "confirm", !.candidate = name]
                    ELSE [cx EXCEPT !.pc = "rest", !.username = name]
    /\ UNCHANGED <<ledgerVars, retryVars, menuVars, appVars, tk, logs, host>>

\* "user exists, keep using it? (y/n)": 'y' takes the name and resolves its home, any
\* other answer asks for the username again.
CollectConfirm ==
    /\ cx.pc = "confirm"
    /\ \E ans \in {"y", "n"} :
         cx' = IF ans = "y"
               THEN [cx EXCEPT !.pc = "rest", !.username = cx.candidate,
                               !.user_home = get_home(cx.users, cx.candidate)]
               ELSE [cx EXCEPT !.pc = "username", !.candidate = ""]
    /\ UNCHANGED <<ledgerVars, retryVars, menuVars, appVars, tk, logs, host>>

\* The end of _collect_data: a home that is still empty is resolved now.
CollectHome ==
    /\ cx.pc = "rest"
    /\ cx' = [cx EXCEPT !.pc = IF cx.user_selected THEN "user" ELSE "identity",
                        !.user_home = IF cx.username # "" /\ cx.user_home = <<>>
                                      THEN get_home(cx.users, cx.username) ELSE @]
    /\ UNCHANGED <<ledgerVars, retryVars, menuVars, appVars, tk, logs, host>>

\* CreateUser.execute: skipped for an existing user, otherwise useradd -m creates the
\* user and its home directory.
CreateUser ==
    /\ cx.pc = "user"
    /\ cx' = [cx EXCEPT !.pc = "identity",
                        !.users = IF user_exists(cx.users, cx.username)
                                  THEN @ ELSE @ \cup {cx.username}]
    /\ UNCHANGED <<ledgerVars, retryVars, menuVars, appVars, tk, logs, host>>

\* A task that needs the identity runs (omz, zsh-plugins, zshrc, yay, conda): it builds
\* its paths from ctx.user_home.
IdentityTask ==
    /\ cx.pc = "identity"
    /\ cx' = [cx EXCEPT !.pc = "ran", !.used = cx.user_home]
    /\ UNCHANGED <<ledgerVars, retryVars, menuVars, appVars, tk, logs, host>>

\* The menu has returned a selection that holds a task needing the identity, with or
\* without the 'user' task before it; some of the users exist on the host.
InitContext ==
    /\ \E us \in SUBSET Users : \E sel \in BOOLEAN :
         cx = [CxIdle EXCEPT !.pc = "username", !.users = us, !.user_selected = sel]
    /\ lists = << <<>> >> /\ cur = 1 /\ disk = {} /\ disk0 = {} /\ cl = ClIdle
    /\ rms = {} /\ ops = <<>>
    /\ rt = RetryIdle /\ op = [fails |-> 0, calls |-> 0]
    /\ MenuIdle
    /\ plan = <<>> /\ i = 1 /\ pc = "idle" /\ res = "none" /\ status = <<>>
    /\ tracker = <<>> /\ workers = [p \in Plugins |-> WIdle] /\ sig = "none"
    /\ exitStatus = -1 /\ hist = HistNone
    /\ tk = TkIdle /\ logs = <<>> /\ host = HostIdle

NextContext ==
    \/ CollectUsername
    \/ CollectConfirm
    \/ CollectHome
    \/ CreateUser
    \/ IdentityTask

SpecContext == InitContext /\ [][NextContext]_vars

\* C18 (as claimed): when a task that needs the identity runs, the home it reads from
\* the context is the home the host resolves for the context's username at that
\* moment.
C18_HomeNotStale ==
    cx.pc = "ran" => cx.used = get_home(cx.users, cx.username)

(***************************************************************************)
(* run: a host command under retry, with the command logged (masked) and   *)
(* the failure of an attempt logged by the retry wrapper. Strings are      *)
(* sequences of characters.                                                *)
(***************************************************************************)
Quotes == {"'", "\""}
Whitespace == {" ", "\n"}

\* The word w stands in s at position k.
IsAt(s, k, w) == k >= 1 /\ k + Len(w) - 1 <= Len(s) /\ SubSeq(s, k, k + Len(w) - 1) = w

\* p in s
Contains(s, p) == \E k \in 1..Len(s) : IsAt(s, k, p)

\* The first position from `from` on whose character is in `set`, 0 if there is none.
NextIn(s, from, set) ==
    IF \E k \in from..Len(s) : s[k] \in set
    THEN CHOOSE k \in from..Len(s) : s[k] \in set /\ \A m \in from..(k - 1) : s[m] \notin set
    ELSE 0

\* (echo\s+['"]) at position k: the position of the quote, 0 if the pattern is not there.
EchoQuote(s, k) ==
    IF ~IsAt(s, k, <<"e", "c", "h", "o">>) THEN 0
    ELSE LET q == IF \E m \in (k + 4)..Len(s) : s[m] \notin Whitespace
                  THEN CHOOSE m \in (k + 4)..Len(s) :
                          s[m] \notin Whitespace /\ \A n \in (k + 4)..(m - 1) : s[n] \in Whitespace
                  ELSE 0
         IN IF q > k + 4 /\ s[q] \in Quotes THEN q ELSE 0

\* (['"].*word): the position where the longest match of this group, which starts at
\* the quote at q2 and ends with the word (given as the alternatives of how it may be
\* spelled) on the same line, ends; 0 if there is none.
OnSameLine(s, q2, words) ==
    LET ends == {e \in (q2 + 1)..Len(s) :
                    \E w \in words :
                        /\ IsAt(s, e - Len(w) + 1, w)
                        /\ e - Len(w) + 1 > q2
                        /\ \A m \in (q2 + 1)..(e - Len(w)) : s[m] # "\n"}
    IN IF ends = {} THEN 0 ELSE CHOOSE e \in ends : \A f \in ends : f <= e

NoMatch == [q |-> 0, q2 |-> 0, e |-> 0]

\* The match of (echo\s+['"])[^:]+:([^'"]+)(['"].*chpasswd) that starts at k: the
\* quote after echo, the quote that closes the pair and the end of the match, or
\* NoMatch.
MatchChpasswd(s, k) ==
    LET q == EchoQuote(s, k)
        c == IF q = 0 THEN 0 ELSE NextIn(s, q + 1, {":"})
        q2 == IF c = 0 THEN 0 ELSE NextIn(s, c + 1, Quotes)
        e == IF q2 = 0 THEN 0
             ELSE OnSameLine(s, q2, {<<"c", "h", "p", "a", "s", "s", "w", "d">>})
    IN IF q # 0 /\ c > q + 1 /\ q2 > c + 1 /\ e # 0
       THEN [q |-> q, q2 |-> q2, e |-> e] ELSE NoMatch

\* The match of (echo\s+['"])([^'"]+)(['"].*sudo\s+-S) that starts at k.
MatchSudo(s, k) ==
    LET q == EchoQuote(s, k)
        q2 == IF q = 0 THEN 0 ELSE NextIn(s, q + 1, Quotes)
        e == IF q2 = 0 THEN 0
             ELSE OnSameLine(s, q2, {<<"s", "u", "d", "o", w, "-", "S">> : w \in Whitespace})
    IN IF q # 0 /\ q2 > q + 1 /\ e # 0
       THEN [q |-> q, q2 |-> q2, e |-> e] ELSE NoMatch

Match(pattern, s, k) ==
    IF pattern = "chpasswd" THEN MatchChpasswd(s, k) ELSE MatchSudo(s, k)

\* re.sub: in every match, leftmost first and not overlapping, what stands between the
\* two quotes is replaced.
RECURSIVE Sub(_, _, _)
Sub(pattern, stars, s) ==
    IF \E k \in 1..Len(s) : Match(pattern, s, k).q # 0
    THEN LET k == CHOOSE k \in 1..Len(s) :
                     /\ Match(pattern, s, k).q # 0
                     /\ \A m \in 1..(k - 1) : Match(pattern, s, m).q = 0
             m == Match(pattern, s, k)
         IN SubSeq(s, 1, m.q) \o stars \o SubSeq(s, m.q2, m.e)
            \o Sub(pattern, stars, SubSeq(s, m.e + 1, Len(s)))
    ELSE s

\* mask_sensitive_info: the chpasswd pattern, then the sudo -S pattern.
mask_sensitive_info(cmd) ==
    Sub("sudo", <<"*", "*", "*">>,
        Sub("chpasswd", <<"*", "*", "*", ":", "*", "*", "*">>, cmd))

MaxCode == 2
ExitCodes == 0..MaxCode

Username == <<"b", "o", "b">>
Passwords == { <<"s", "3">>, <<"p", "w", "d">> }

\* f"echo '{self.ctx.username}:{self.ctx.password}' | chpasswd"
chpasswd_cmd(u, p) ==
    <<"e", "c", "h", "o", " ", "'">> \o u \o <<":">> \o p
    \o <<"'", " ", "|", " ", "c", "h", "p", "a", "s", "s", "w", "d">>

\* cfg.YAY_REPO
YAY_REPO ==
    <<"h", "t", "t", "p", "s", ":", "/", "/", "a", "u", "r", ".", "a", "r",
      "c", "h", "l", "i", "n", "u", "x", ".", "o", "r", "g", "/", "y", "a",
      "y", ".", "g", "i", "t">>

UserHome == <<"/", "h", "o", "m", "e", "/", "b", "o", "b">>

\* The build script of InstallYay for the user's home and password.
yay_script(home, p) ==
    <<"\n", "c", "d", " ">> \o home
    \o <<"\n", "r", "m", " ", "-", "r", "f", " ", "t", "m", "p", "_", "y", "a",
      "y", "\n", "m", "k", "d", "i", "r", " ", "t", "m", "p", "_", "y", "a",
      "y", " ", "&", "&", " ", "c", "d", " ", "t", "m", "p", "_", "y", "a",
      "y", "\n", "g", "i", "t", " ", "c", "l", "o", "n", "e", " ">>
    \o YAY_REPO
    \o <<"\n", "c", "d", " ", "y", "a", "y", "\n", "e", "c", "h", "o", " ", "'">> \o p
    \o <<"'", " ", "|", " ", "s", "u", "d", "o", " ", "-", "S", " ", "-", "v",
      "\n", "m", "a", "k", "e", "p", "k", "g", " ", "-", "s", "i", " ", "-",
      "-", "n", "o", "c", "o", "n", "f", "i", "r", "m", "\n", "c", "d", " ">> \o home
    \o <<"\n", "r", "m", " ", "-", "r", "f", " ", "t", "m", "p", "_", "y", "a",
      "y", "\n">>

gh_auth_login == <<"g", "h", " ", "a", "u", "t", "h", " ", "l", "o", "g", "i", "n">>

\* cmd = f"su - {user} -c '{cmd}'"
su_wrap(user, cmd) == <<"s", "u", " ", "-", " ">> \o user \o <<" ", "-", "c", " ", "'">> \o cmd \o <<"'">>

\* str(CalledProcessError): "Command '<cmd>' returned non-zero exit status <n>."
ErrStr(e) ==
    <<"C", "o", "m", "m", "a", "n", "d", " ", "'">> \o e.cmd
    \o <<"'", " ", "r", "e", "t", "u", "r", "n", "e", "d", " ", "n", "o", "n",
      "-", "z", "e", "r", "o", " ", "e", "x", "i", "t", " ", "s", "t", "a",
      "t", "u", "s", " ">>
    \o <<Digit[e.returncode + 1], ".">>

\* What the command wrote to stderr when it exited with `code`.
Stderr(code) == <<"stderr", code>>

\* The calls of run the model makes: the chpasswd pipe of CreateUser, the build script
\* of InstallYay (as the user), and `gh auth login` of ConfigureGitHub with check on
\* and off.
Calls ==
    {[task |-> "CreateUser", cmd |-> chpasswd_cmd(Username, p), user |-> <<>>,
      check |-> TRUE, mask_log |-> TRUE, password |-> p] : p \in Passwords}
    \cup {[task |-> "InstallYay", cmd |-> yay_script(UserHome, p), user |-> Username,
           check |-> TRUE, mask_log |-> TRUE, password |-> p] : p \in Passwords}
    \cup {[task |-> "ConfigureGitHub", cmd |-> gh_auth_login, user |-> Username,
           check |-> c, mask_log |-> TRUE, password |-> <<>>] : c \in BOOLEAN}

\* The command line handed to subprocess.run.
Executed(c) == IF c.user # <<>> THEN su_wrap(c.user, c.cmd) ELSE c.cmd

\* The text run writes to the debug log.
LogCmd(c) ==
    (IF c.mask_log THEN mask_sensitive_info(c.cmd) ELSE c.cmd)
    \o (IF c.user # <<>> THEN <<" ", "(">> \o c.user \o <<")">> ELSE <<>>)

run_once_Checked(c, code) ==
    IF code # 0
    THEN [ok |-> FALSE,
          val |-> [type |-> "CalledProcessError", cmd |-> Executed(c), returncode |-> code,
                   stderr |-> Stderr(code)]]
    ELSE [ok |-> TRUE,
          val |-> [type |-> "CompletedProcess", cmd |-> Executed(c), returncode |-> code,
                   stderr |-> Stderr(code)]]

\* The body of run for a command that exits with `code`: subprocess.run(..., check=check)
\* raises CalledProcessError for a non-zero code when check is set and returns the
\* CompletedProcess otherwise.
run_once(c, code) ==
    IF c.check /\ code # 0
    THEN [ok |-> FALSE,
          val |-> [type |-> "CalledProcessError", cmd |-> Executed(c), returncode |-> code,
                   stderr |-> Stderr(code)]]
    ELSE [ok |-> TRUE,
          val |-> [type |-> "CompletedProcess", cmd |-> Executed(c), returncode |-> code,
                   stderr |-> Stderr(code)]]

\* logger.log(msg, level)
Logged(level, text) == [level |-> level, text |-> text]

\* One attempt of the retry-wrapped run: run logs the command, the command exits with
\* some code, and the wrapper logs the failure (warning and retry notice, or the final
\* error) with str(e).
RunAttempt ==
    /\ rt.state = "loop"
    /\ \E code \in ExitCodes :
         LET out == run_once(op.call, code)
             r == retry_attempt(rt, out)
         IN /\ rt' = r
            /\ op' = [op EXCEPT !.calls = @ + 1, !.codes = Append(@, code)]
            /\ logs' = logs \o <<Logged("DEBUG", LogCmd(op.call))>>
                        \o (IF r.warnings > rt.warnings
                            THEN <<Logged("WARNING", ErrStr(out.val)), Logged("INFO", <<>>)>>
                            ELSE <<>>)
                        \o (IF r.errors > rt.errors
                            THEN <<Logged("ERROR", ErrStr(out.val))>>
                            ELSE <<>>)
    /\ UNCHANGED <<ledgerVars, menuVars, appVars, tk, cx, host>>

\* The failure run raised leaves the task's execute (InstallYay logs it and the hint
\* on the way out): run_with_tracking records it and _execute logs it.
RunPropagate ==
    /\ rt.state = "raised"
    /\ rt' = [rt EXCEPT !.state = "propagated"]
    /\ tracker' = run_with_tracking(tracker, op.call.task, Raises(ErrStr(rt.result)), 0).tasks
    /\ logs' = logs
                \o (IF op.call.task = "InstallYay"
                    THEN <<Logged("ERROR", ErrStr(rt.result)), Logged("WARNING", <<>>)>>
                    ELSE <<>>)
                \o <<Logged("ERROR", ErrStr(rt.result))>>
    /\ UNCHANGED <<ledgerVars, op, menuVars, plan, i, pc, res, status, workers, sig,
                   exitStatus, hist, tk, cx, host>>

InitRun ==
    /\ rt = retry_enter(RunTimes)
    /\ \E c \in Calls : op = [call |-> c, calls |-> 0, codes |-> <<>>]
    /\ lists = << <<>> >> /\ cur = 1 /\ disk = {} /\ disk0 = {} /\ cl = ClIdle
    /\ rms = {} /\ ops = <<>>
    /\ MenuIdle /\ AppIdle

NextRun ==
    \/ RunAttempt
    \/ RunPropagate

SpecRun == InitRun /\ [][NextRun]_vars

\* The run is over: run returned, or its failure left the wrapper.
RunOver == rt.state \in {"returned", "raised", "propagated"}

\* Some log entry carries the password of the command in clear.
PasswordLogged ==
    \E k \in 1..Len(logs) : Contains(logs[k].text, op.call.password)

\* Some tracker message carries the password of the command in clear.
PasswordTracked ==
    \E k \in 1..Len(tracker) : Contains(tracker[k].message, op.call.password)

\* C19: for every command that embeds the password (the chpasswd pipe, the sudo -S
\* pipe) and every outcome of it (success, failure of any attempt, retry exhaustion),
\* no log entry and no tracker message contains the password.
C19_NoPasswordLogged ==
    op.call.password # <<>> => ~PasswordLogged /\ ~PasswordTracked

\* C20: under check=True run returns exactly when an attempt exits with zero; when every
\* one of the RunTimes attempts exits non-zero it fails with the command error that
\* carries the executed command, the exit code and the stderr of the last attempt.
\* Under check=False the command is executed once and its result, with whatever exit
\* code, is returned; nothing is raised.
C20_RunCheck ==
    /\ ~op.call.check => op.calls <= 1 /\ rt.state \in {"loop", "returned"}
    /\ RunOver =>
         LET last == op.codes[op.calls] IN
         IF op.call.check
         THEN /\ rt.state = "returned" <=> last = 0
              /\ rt.state # "returned" =>
                   /\ op.calls = RunTimes
                   /\ \A k \in 1..op.calls : op.codes[k] # 0
                   /\ rt.result = [type |-> "CalledProcessError",
                                   cmd |-> Executed(op.call),
                                   returncode |-> last,
                                   stderr |-> Stderr(last)]
         ELSE /\ op.calls = 1
              /\ rt.result = [type |-> "CompletedProcess",
                              cmd |-> Executed(op.call),
                              returncode |-> last,
                              stderr |-> Stderr(last)]

\* A check=False command exited non-zero and run returned it.
C20_Witness ==
    /\ ~op.call.check /\ rt.state = "returned"
    /\ op.calls = 1 /\ op.codes[1] # 0 /\ rt.result.returncode # 0

\* A check=True command exited non-zero RunTimes times and run raised.
C20_WitnessRaised ==
    /\ op.call.check /\ rt.state = "raised"
    /\ op.calls = RunTimes /\ op.codes[RunTimes] # 0

\* C21: when a failure has escaped App.run uncaught (end of input at the prompt), the
\* process exits with status 1, and by then cleanup() has emptied the ledger and has
\* issued the delete for every artifact that was registered and on disk when the
\* failure escaped: each of them is gone, unless the host's delete command itself failed.
C21_UncaughtCleansUp ==
    (pc = "exited" /\ hist.uncaught) =>
        /\ exitStatus = 1
        /\ Items = <<>>
        /\ \A p \in hist.atUncaught : RmIssued(p) /\ (p \notin disk \/ RmFailed(p))

\* C21 witness: the failure escaped with the yay build directory registered and on
\* disk; the process has exited and the directory is gone.
C21_Witness ==
    /\ pc = "exited" /\ hist.uncaught /\ exitStatus = 1
    /\ TmpYay \in hist.atUncaught /\ TmpYay \notin disk

\* C22 (as claimed): whenever a task is recorded with outcome Success, the ledger holds
\* no entry that this task or one of its sub-units registered.
C22_SuccessLeavesNoEntry ==
    hist.atSuccess = {}

\* The results the plugin task's execute has collected from its sub-units when it
\* returned ("none" for a sub-unit that had not returned one).
SubResults == {hist.subResults[p] : p \in Plugins}

\* C23: the plugin task returns only after every sub-unit has returned its own result
\* (skip, success or error), whatever the results of the others; a task that returned
\* this way is recorded as Success even when a sub-unit returned error, and it is
\* Failed only when no sub-unit was started (the network check failed).
C23_SubUnitsIsolated ==
    /\ SubResults \subseteq {"none"} \/ SubResults \subseteq {"skip", "success", "error"}
    /\ \A j \in 1..Len(status) :
         plan[j] = "zsh-plugins" =>
            /\ status[j] = "Failed" => SubResults = {"none"}
            /\ status[j] = "Success" => SubResults \subseteq {"skip", "success", "error"}
            /\ (j < i /\ "none" \notin SubResults) => status[j] = "Success"

\* C23 witness: one plugin's install failed for good, the other one was
\* installed, and the task was recorded as Success.
C23_Witness ==
    /\ hist.subResults["zsh-autosuggestions"] = "error"
    /\ hist.subResults["zsh-syntax-highlighting"] = "success"
    /\ \E j \in 1..Len(status) : plan[j] = "zsh-plugins" /\ status[j] = "Success"

(***************************************************************************)
(* ConfigureZshrc: the task edits the user's .zshrc in place. The file is  *)
(* a sequence of characters.                                               *)
(***************************************************************************)
\* ^ under re.MULTILINE: at the start of the string or after a newline.
LineStart(s, k) == k = 1 \/ s[k - 1] = "\n"

\* $ under re.MULTILINE: at the end of the string or before a newline.
LineEnd(s, k) == k = Len(s) + 1 \/ s[k] = "\n"

PluginsOpen == <<"p", "l", "u", "g", "i", "n", "s", "=", "(">>
EditorAssign == <<"e", "x", "p", "o", "r", "t", " ", "E", "D", "I", "T", "O", "R", "=">>
Fastfetch == <<"f", "a", "s", "t", "f", "e", "t", "c", "h">>
SystemInfo == <<"#", " ", "S", "y", "s", "t", "e", "m", " ", "i", "n", "f", "o">>

\* desired_plugins
desired_plugins ==
    <<"p", "l", "u", "g", "i", "n", "s", "=", "(", "g", "i", "t", " ", "z",
      " ", "z", "s", "h", "-", "a", "u", "t", "o", "s", "u", "g", "g", "e",
      "s", "t", "i", "o", "n", "s", " ", "z", "s", "h", "-", "s", "y", "n",
      "t", "a", "x", "-", "h", "i", "g", "h", "l", "i", "g", "h", "t", "i",
      "n", "g", ")">>

\* The last position of the match of ^plugins=\([^)]*\) that starts at k, 0 if the
\* pattern does not match there.
MatchPlugins(s, k) ==
    IF LineStart(s, k) /\ IsAt(s, k, PluginsOpen)
    THEN NextIn(s, k + Len(PluginsOpen), {")"})
    ELSE 0

\* ^export EDITOR=.* : up to the end of the line.
MatchEditor(s, k) ==
    IF LineStart(s, k) /\ IsAt(s, k, EditorAssign)
    THEN LET n == NextIn(s, k, {"\n"}) IN IF n = 0 THEN Len(s) ELSE n - 1
    ELSE 0

\* ^fastfetch\s*$ : the word, then as much whitespace (newlines included) as still
\* ends at the end of a line.
MatchFastfetch(s, k) ==
    IF LineStart(s, k) /\ IsAt(s, k, Fastfetch)
    THEN LET a == k + Len(Fastfetch)
             ends == {e \in (a - 1)..Len(s) :
                         /\ \A m \in a..e : s[m] \in Whitespace
                         /\ LineEnd(s, e + 1)}
         IN IF ends = {} THEN 0 ELSE CHOOSE e \in ends : \A f \in ends : f <= e
    ELSE 0

MatchLine(pattern, s, k) ==
    CASE pattern = "plugins" -> MatchPlugins(s, k)
      [] pattern = "editor" -> MatchEditor(s, k)
      [] pattern = "fastfetch" -> MatchFastfetch(s, k)

\* re.search(pattern, content, re.MULTILINE): where the leftmost match from `from` on
\* starts, 0 if there is none.
search(pattern, s, from) ==
    LET ks == {k \in from..Len(s) : MatchLine(pattern, s, k) # 0}
    IN IF ks = {} THEN 0 ELSE CHOOSE k \in ks : \A m \in ks : k <= m

\* re.sub(pattern, repl, content, flags=re.MULTILINE) from position `from` on: every
\* match, leftmost first and not overlapping, is replaced.
RECURSIVE re_sub(_, _, _, _)
re_sub(pattern, repl, s, from) ==
    LET k == search(pattern, s, from) IN
    IF k = 0 THEN SubSeq(s, from, Len(s))
    ELSE SubSeq(s, from, k - 1) \o repl \o re_sub(pattern, repl, s, MatchLine(pattern, s, k) + 1)

\* content.rstrip()
rstrip(s) ==
    LET n == CHOOSE n \in 0..Len(s) :
                 /\ n = 0 \/ s[n] \notin Whitespace
                 /\ \A m \in (n + 1)..Len(s) : s[m] \in Whitespace
    IN SubSeq(s, 1, n)

\* _ensure_line: a content the pattern matches has every match replaced by the line,
\* any other content gets the line appended.
ensure_line(content, pattern, line) ==
    IF search(pattern, content, 1) # 0
    THEN re_sub(pattern, line, content, 1)
    ELSE rstrip(content) \o <<"\n", "\n">> \o line \o <<"\n">>

\* What execute writes back for the content it read.
zshrc_execute(content) ==
    LET k == search("plugins", content, 1)
        c1 == IF k # 0 /\ SubSeq(content, k, MatchPlugins(content, k)) # desired_plugins
              THEN re_sub("plugins", desired_plugins, content, 1)
              ELSE content
        c2 == ensure_line(c1, "editor", EditorAssign \o <<"n", "a", "n", "o">>)
    IN ensure_line(c2, "fastfetch", SystemInfo \o <<"\n">> \o Fastfetch)

\* How many times the word stands in s.
Occurrences(s, w) == Cardinality({k \in 1..Len(s) : IsAt(s, k, w)})

MaxPieces == 2
MaxRuns == 2

\* The lines the initial .zshrc files are put together from.
ZshrcLines ==
    { PluginsOpen \o <<"g", "i", "t", ")", "\n">>,
      desired_plugins \o <<"\n">>,
      EditorAssign \o <<"v", "i", "m", "\n">>,
      EditorAssign \o <<"n", "a", "n", "o", "\n">>,
      Fastfetch \o <<"\n">>,
      Fastfetch,
      SystemInfo \o <<"\n">>,
      <<"\n">>,
      <<"a", "l", "i", "a", "s", " ", "x", "=", "y", "\n">> }

RECURSIVE Concat(_)
Concat(ss) == IF ss = <<>> THEN <<>> ELSE Head(ss) \o Concat(Tail(ss))

ZshrcFiles == {Concat(ls) : ls \in UNION {[1..n -> ZshrcLines] : n \in 0..MaxPieces}}

\* ConfigureZshrc.execute, once more: without the file the task is skipped, otherwise
\* the content is read, edited and written back.
ZshrcRun ==
    /\ host.task = "zshrc" /\ host.runs < MaxRuns
    /\ LET new == IF host.exists THEN zshrc_execute(host.content) ELSE host.content IN
       host' = [host EXCEPT !.content = new,
                            !.runs = @ + 1,
                            !.once = IF host.runs = 0 THEN new ELSE @,
                            !.result = IF host.exists THEN "None" ELSE "skipped"]
    /\ UNCHANGED <<ledgerVars, retryVars, menuVars, appVars, tk, cx, logs>>

InitZshrc ==
    /\ \E exists \in BOOLEAN : \E c \in ZshrcFiles :
         /\ ~exists => c = <<>>
         /\ host = [task |-> "zshrc", exists |-> exists, content |-> c, initial |-> c,
                    runs |-> 0, once |-> <<>>, result |-> "none"]
    /\ MenuIdle
    /\ plan = <<>> /\ i = 1 /\ pc = "idle" /\ res = "none" /\ status = <<>>
    /\ tracker = <<>> /\ workers = [p \in Plugins |-> WIdle] /\ sig = "none"
    /\ exitStatus = -1 /\ hist = HistNone
    /\ tk = TkIdle /\ cx = CxIdle /\ logs = <<>>
    /\ rt = RetryIdle /\ op = [fails |-> 0, calls |-> 0]
    /\ lists = << <<>> >> /\ cur = 1 /\ disk = {} /\ disk0 = {} /\ cl = ClIdle
    /\ rms = {} /\ ops = <<>>

NextZshrc == ZshrcRun

SpecZshrc == InitZshrc /\ [][NextZshrc]_vars

\* C24 (as claimed): running ConfigureZshrc twice leaves the content that running it
\* once leaves, and the second run adds no further copy of 'export EDITOR=nano',
\* '# System info' or 'fastfetch'.
C24_ZshrcIdempotent ==
    (host.task = "zshrc" /\ host.runs = 2) =>
        /\ host.content = host.once
        /\ \A w \in {EditorAssign \o <<"n", "a", "n", "o">>, SystemInfo, Fastfetch} :
             Occurrences(host.content, w) = Occurrences(host.once, w)

\* C25: the prompt comes up only for a task that was recorded as Failed. Once the
\* operator has answered anything but y/Y, no task after the failed one ever leaves
\* Pending. After y/Y the loop goes on to the next task of the plan, which is started
\* unless an interrupt arrives first.
C25_OperatorDecides ==
    /\ pc = "prompt" => status[i] = "Failed"
    /\ \A k \in hist.prompted : status[k] = "Failed"
    /\ \A k \in hist.declined : \A j \in (k + 1)..Len(status) : status[j] = "Pending"
    /\ \A k \in hist.accepted :
         k < Len(plan) => \/ status[k + 1] # "Pending"
                          \/ i = k + 1 /\ pc = "loop"
                          \/ sig # "none"

\* C25 witness: the operator declined after the first task failed; the process has
\* exited and the second task is still Pending.
C25_Witness ==
    /\ pc = "exited" /\ hist.declined = {1}
    /\ Len(plan) = 2 /\ status[1] = "Failed" /\ status[2] = "Pending"

\* The operator accepted with 'Y' after the first task failed and the second task
\* has run.
C25_WitnessAccepted ==
    /\ hist.accepted = {1} /\ Len(plan) = 2
    /\ status[1] = "Failed" /\ status[2] \in Terminal

(***************************************************************************)
(* UpdateSystem: the pacman lock, the network check, the update under      *)
(* retry and the keyring fallback.                                         *)
(***************************************************************************)
\* str.strip(): leading and trailing whitespace, newlines included, is dropped.
str_strip(s) ==
    LET keep == {k \in 1..Len(s) : s[k] \notin Whitespace} IN
    IF keep = {} THEN <<>>
    ELSE SubSeq(s, CHOOSE a \in keep : \A b \in keep : a <= b,
                   CHOOSE a \in keep : \A b \in keep : b <= a)

\* str.isdigit()
isdigit(s) == s # <<>> /\ \A k \in 1..Len(s) : IsDigit(s[k])

\* The pids a lock file may name, and the largest pid of the host.
MaxPid == 2
Pids == 1..MaxPid

\* What /var/lib/pacman/db.lck can hold: nothing (as pacman leaves it), a pid with or
\* without a newline, other text; or bytes that read() cannot decode.
LockTexts ==
    { <<>>, <<"x">> } \cup {<<Digit[p + 1]>> : p \in Pids} \cup {<<Digit[p + 1], "\n">> : p \in Pids}

NoLock == [exists |-> FALSE, text |-> <<>>, decodable |-> TRUE]

\* The lock file names a process that is alive.
HeldByLive(lock, procs) ==
    /\ lock.exists /\ lock.decodable
    /\ isdigit(str_strip(lock.text))
    /\ DigitsValue(str_strip(lock.text)) \in procs

check_and_remove_pacman_lock_Stale(lock, procs, unlink_ok) ==
    IF ~lock.exists THEN [ret |-> TRUE, lock |-> lock]
    ELSE IF unlink_ok THEN [ret |-> TRUE, lock |-> NoLock]
    ELSE [ret |-> FALSE, lock |-> lock]

\* check_and_remove_pacman_lock: no lock file is fine; a lock whose content is the pid
\* of a process under /proc is left alone and False is returned; any other lock
\* (another content, a pid that is gone, a content that cannot be read: the exception
\* is passed over) is unlinked, and False is returned only if unlink raises.
check_and_remove_pacman_lock(lock, procs, unlink_ok) ==
    IF ~lock.exists THEN [ret |-> TRUE, lock |-> lock]
    ELSE LET content == str_strip(lock.text)
             live == /\ lock.decodable
                     /\ isdigit(content)
                     /\ DigitsValue(content) \in procs
         IN IF live THEN [ret |-> FALSE, lock |-> lock]
            ELSE IF unlink_ok THEN [ret |-> TRUE, lock |-> NoLock]
            ELSE [ret |-> FALSE, lock |-> lock]

\* The commands of UpdateSystem.execute, by the step that runs them.
UpdateCommand(step) ==
    CASE step = "upd:syyu" -> "pacman -Syyu --noconfirm"
      [] step = "upd:keyinit" -> "pacman-key --init"
      [] step = "upd:populate" -> "pacman-key --populate archlinux"
      [] step = "upd:syyu2" -> "pacman -Syyu --noconfirm"

UpdateSteps == {"upd:syyu", "upd:keyinit", "upd:populate", "upd:syyu2"}

\* execute, first step: the lock check. False raises at once.
UpdLock ==
    /\ pc = "upd:lock"
    /\ \E unlink_ok \in BOOLEAN :
         LET r == check_and_remove_pacman_lock(host.lock, host.procs, unlink_ok) IN
         /\ host' = [host EXCEPT !.lock = r.lock, !.steps = Append(@, "lock")]
         /\ IF r.ret
            THEN pc' = "upd:net" /\ res' = res
            ELSE pc' = "ended" /\ res' = "raised"
    /\ UNCHANGED <<ledgerVars, retryVars, menuVars, plan, i, status, tracker, workers, sig,
                   exitStatus, hist, tk, cx, logs>>

\* check_network_connectivity(): no network raises.
UpdNet ==
    /\ pc = "upd:net"
    /\ host' = [host EXCEPT !.steps = Append(@, "net")]
    /\ \E ok \in BOOLEAN :
         IF ok
         THEN pc' = "upd:syyu" /\ rt' = retry_enter(RunTimes) /\ res' = res
         ELSE pc' = "ended" /\ res' = "raised" /\ rt' = rt
    /\ UNCHANGED <<ledgerVars, op, menuVars, plan, i, status, tracker, workers, sig,
                   exitStatus, hist, tk, cx, logs>>

\* One attempt of the run of the step's command. The update that fails for good is
\* followed by the keyring fallback; a command of the fallback that fails for good
\* is raised out of execute.
UpdRun ==
    /\ pc \in UpdateSteps
    /\ \E ok \in BOOLEAN :
         LET r == retry_attempt(rt, Out(ok)) IN
         /\ op' = [op EXCEPT !.calls = @ + 1, !.cmds = Append(@, UpdateCommand(pc))]
         /\ CASE r.state = "loop" -> rt' = r /\ pc' = pc /\ res' = res
              [] r.state = "returned" ->
                   CASE pc = "upd:keyinit" ->
                          rt' = retry_enter(RunTimes) /\ pc' = "upd:populate" /\ res' = res
                     [] pc = "upd:populate" ->
                          rt' = retry_enter(RunTimes) /\ pc' = "upd:syyu2" /\ res' = res
                     [] OTHER -> rt' = r /\ pc' = "ended" /\ res' = "ok"
              [] r.state = "raised" ->
                   IF pc = "upd:syyu"
                   THEN rt' = retry_enter(RunTimes) /\ pc' = "upd:keyinit" /\ res' = res
                   ELSE rt' = r /\ pc' = "ended" /\ res' = "raised"
    /\ UNCHANGED <<ledgerVars, menuVars, plan, i, status, tracker, workers, sig,
                   exitStatus, hist, tk, cx, logs, host>>

\* A process of the host exits.
ProcExit ==
    /\ host.task = "update" /\ pc # "ended"
    /\ \E p \in host.procs : host' = [host EXCEPT !.procs = @ \ {p}]
    /\ UNCHANGED <<ledgerVars, retryVars, menuVars, appVars, tk, cx, logs>>

InitUpdate ==
    /\ \E lock \in {NoLock} \cup [exists : {TRUE}, text : LockTexts, decodable : BOOLEAN] :
       \E procs \in SUBSET Pids :
         host = [task |-> "update", lock |-> lock, lock0 |-> lock, procs |-> procs,
                 steps |-> <<>>]
    /\ pc = "upd:lock" /\ res = "none"
    /\ rt = RetryIdle /\ op = [calls |-> 0, cmds |-> <<>>]
    /\ MenuIdle
    /\ plan = <<>> /\ i = 1 /\ status = <<>>
    /\ tracker = <<>> /\ workers = [p \in Plugins |-> WIdle] /\ sig = "none"
    /\ exitStatus = -1 /\ hist = HistNone
    /\ tk = TkIdle /\ cx = CxIdle /\ logs = <<>>
    /\ lists = << <<>> >> /\ cur = 1 /\ disk = {} /\ disk0 = {} /\ cl = ClIdle
    /\ rms = {} /\ ops = <<>>

NextUpdate ==
    \/ UpdLock
    \/ UpdNet
    \/ UpdRun
    \/ ProcExit

SpecUpdate == InitUpdate /\ [][NextUpdate]_vars

\* C26: while the lock file names a process that is alive, the lock file is there as
\* it was; and when the lock check found it so, UpdateSystem has raised at that very
\* step: no network check, no command, no attempt of run.
C26_LiveLockKept ==
    /\ HeldByLive(host.lock0, host.procs) => host.lock = host.lock0
    /\ (host.steps # <<>> /\ HeldByLive(host.lock0, host.procs)) =>
          /\ pc = "ended" /\ res = "raised"
          /\ host.steps = <<"lock">>
          /\ op.cmds = <<>> /\ op.calls = 0 /\ rt = RetryIdle

\* C26 witness: the lock names pid 1 (with the newline after it), pid 1 is alive, the
\* task has raised and the lock is still there.
C26_Witness ==
    /\ host.lock0.text = <<"1", "\n">> /\ 1 \in host.procs /\ host.lock0.decodable
    /\ pc = "ended" /\ res = "raised" /\ host.lock.exists
    /\ host.steps = <<"lock">>

(***************************************************************************)
(* InstallBase and InstallOptional: the bulk install under retry and the   *)
(* per-package fallback.                                                   *)
(***************************************************************************)
MaxPkgs == 3

\* cfg.PKG_BASE and cfg.PKG_OPT, as package numbers.
Packages(task) == [k \in 1..MaxPkgs |-> <<task, k>>]

\* ' '.join(pkgs): the bulk command names every package.
BulkTarget(task) == <<task, 0>>

FallbackStarts_AnyFailure(r) == r.state # "returned"

\* except subprocess.CalledProcessError around the bulk run: the retry wrapper has
\* raised.
FallbackStarts(r) == r.state = "raised"

\* One attempt of run(f"pacman -S --noconfirm {' '.join(pkgs)}").
PkgBulk ==
    /\ pc = "pkg:bulk"
    /\ \E ok \in BOOLEAN :
         LET r == retry_attempt(rt, Out(ok)) IN
         /\ op' = [op EXCEPT !.calls = @ + 1,
                             !.cmds = Append(@, [target |-> BulkTarget(host.task), ok |-> ok])]
         /\ IF FallbackStarts(r)
            THEN /\ pc' = "pkg:each" /\ rt' = retry_enter(RunTimes) /\ res' = res
                 /\ host' = [host EXCEPT !.fallback = TRUE]
            ELSE /\ rt' = r /\ host' = host
                 /\ IF r.state = "returned"
                    THEN pc' = "ended" /\ res' = "ok"
                    ELSE pc' = pc /\ res' = res
    /\ UNCHANGED <<ledgerVars, menuVars, plan, i, status, tracker, workers, sig,
                   exitStatus, hist, tk, cx, logs>>

\* One attempt of run(f"pacman -S --noconfirm {pkg}") for the package the loop is at;
\* a package that fails for good is appended to `failed`, and after the last package
\* execute returns.
PkgEach ==
    /\ pc = "pkg:each"
    /\ \E ok \in BOOLEAN :
         LET r == retry_attempt(rt, Out(ok))
             pkg == Packages(host.task)[host.k]
             over == r.state \in {"returned", "raised"}
             last == host.k = Len(Packages(host.task))
         IN /\ op' = [op EXCEPT !.calls = @ + 1,
                                !.cmds = Append(@, [target |-> pkg, ok |-> ok])]
            /\ host' = [host EXCEPT !.failed = IF r.state = "raised" THEN Append(@, pkg) ELSE @,
                                    !.k = IF over /\ ~last THEN @ + 1 ELSE @]
            /\ rt' = IF over /\ ~last THEN retry_enter(RunTimes) ELSE r
            /\ IF over /\ last
               THEN pc' = "ended" /\ res' = "ok"
               ELSE pc' = pc /\ res' = res
    /\ UNCHANGED <<ledgerVars, menuVars, plan, i, status, tracker, workers, sig,
                   exitStatus, hist, tk, cx, logs>>

InitPkg ==
    /\ \E task \in {"base", "optional"} :
         host = [task |-> task, fallback |-> FALSE, k |-> 1, failed |-> <<>>]
    /\ pc = "pkg:bulk" /\ res = "none"
    /\ rt = retry_enter(RunTimes) /\ op = [calls |-> 0, cmds |-> <<>>]
    /\ MenuIdle
    /\ plan = <<>> /\ i = 1 /\ status = <<>>
    /\ tracker = <<>> /\ workers = [p \in Plugins |-> WIdle] /\ sig = "none"
    /\ exitStatus = -1 /\ hist = HistNone
    /\ tk = TkIdle /\ cx = CxIdle /\ logs = <<>>
    /\ lists = << <<>> >> /\ cur = 1 /\ disk = {} /\ disk0 = {} /\ cl = ClIdle
    /\ rms = {} /\ ops = <<>>

NextPkg ==
    \/ PkgBulk
    \/ PkgEach

SpecPkg == InitPkg /\ [][NextPkg]_vars

\* The attempts made on a target, in order.
AttemptsOn(target) == SelectSeq(op.cmds, LAMBDA c : c.target = target)

\* The target was given up: RunTimes attempts, all failed.
GivenUp(target) ==
    /\ Len(AttemptsOn(target)) = RunTimes
    /\ \A n \in 1..RunTimes : ~AttemptsOn(target)[n].ok

\* The target was installed: its last attempt succeeded, none before it did.
Installed(target) ==
    LET a == AttemptsOn(target) IN
    /\ Len(a) \in 1..RunTimes /\ a[Len(a)].ok
    /\ \A n \in 1..(Len(a) - 1) : ~a[n].ok

\* C27: a package is attempted individually only after the bulk install was given up
\* (RunTimes failed attempts); when the task has ended it has not raised, and if the
\* fallback ran, every package was attempted, installed or given up on its own, and
\* `failed` lists exactly the packages given up, in order.
C27_Fallback ==
    LET pkgs == Packages(host.task)
        bulk == BulkTarget(host.task)
    IN /\ (\E n \in 1..Len(op.cmds) : op.cmds[n].target # bulk) =>
             /\ GivenUp(bulk)
             /\ \A n \in 1..RunTimes : op.cmds[n].target = bulk
       /\ pc = "ended" =>
             /\ res = "ok"
             /\ IF GivenUp(bulk)
                THEN /\ \A k \in 1..Len(pkgs) : Installed(pkgs[k]) \/ GivenUp(pkgs[k])
                     /\ host.failed = SelectSeq(pkgs, LAMBDA p : GivenUp(p))
                ELSE Installed(bulk) /\ Len(op.cmds) <= RunTimes /\ host.failed = <<>>

\* C27 witness: the bulk install was given up, the first package was given up too, the
\* second was installed all the same, and the task has ended without raising.
C27_Witness ==
    /\ host.task = "base" /\ pc = "ended" /\ res = "ok"
    /\ GivenUp(BulkTarget("base"))
    /\ GivenUp(Packages("base")[1]) /\ Installed(Packages("base")[2])
    /\ host.failed = <<Packages("base")[1]>>

\* C28: a retry-wrapped call with N attempts invokes the operation at most N times and
\* stops at the first attempt that succeeds; it sleeps (after a warning and the retry
\* notice) once after every failed attempt but the N-th, so never after the last
\* attempt it makes; the exhaustion error is logged once, and exactly when all N
\* attempts failed.
C28_RetryBounded ==
    /\ op.calls <= rt.times
    /\ rt.sleeps <= rt.times - 1
    /\ rt.warnings = rt.sleeps /\ rt.infos = rt.sleeps
    /\ rt.state = "loop" => rt.sleeps = op.calls /\ op.calls <= op.fails /\ rt.errors = 0
    /\ rt.state = "returned" =>
          /\ op.calls = op.fails + 1
          /\ rt.sleeps = op.calls - 1
          /\ rt.errors = 0
    /\ rt.state = "raised" =>
          /\ op.calls = rt.times /\ op.fails >= rt.times
          /\ rt.sleeps = rt.times - 1
          /\ rt.errors = 1

\* C28 witness: three attempts were configured, all three failed: two sleeps, one
\* exhaustion error.
C28_Witness ==
    /\ rt.state = "raised" /\ rt.times = 3 /\ op.calls = 3
    /\ rt.sleeps = 2 /\ rt.errors = 1

\* The operation succeeded on its second call and was not called again, though two
\* attempts were left.
C28_WitnessStopped ==
    /\ rt.state = "returned" /\ rt.times = 4 /\ op.fails = 1 /\ op.calls = 2
    /\ rt.sleeps = 1 /\ rt.errors = 0

\* The paths in the ledger after the ledger calls `calls` (made one after the other,
\* no cleanup() pending).
RECURSIVE LedgerAfter(_)
LedgerAfter(calls) ==
    IF calls = <<>> THEN <<>>
    ELSE LET before == LedgerAfter(SubSeq(calls, 1, Len(calls) - 1))
             call == calls[Len(calls)]
         IN CASE call[1] = "register" -> Append(before, call[2])
              [] call[1] = "unregister" -> SelectSeq(before, LAMBDA p : p # call[2])
              [] OTHER -> <<>>

\* cleanup() has just returned to its caller.
CleanupReturned == cl.state = "returned" /\ cl.ret = "api" /\ ops[Len(ops)][1] = "cleanup"

\* C29 (as claimed): when cleanup() returns the ledger is empty and every entry was
\* processed, also those after an entry whose delete failed (an artifact that is
\* still there had its delete command issued); and an entry is logged as deleted
\* only if its artifact is no longer on disk.
C29_CleanupReports ==
    /\ CleanupReturned =>
          /\ Items = <<>>
          /\ LET entries == LedgerAfter(SubSeq(ops, 1, Len(ops) - 1)) IN
             \A n \in 1..Len(entries) : entries[n] \in disk => RmIssued(entries[n])
    /\ \A r \in rms : r.logged = "deleted" => r.path \notin disk

\* C30 (as claimed): each ledger entry is acted on by at most one cleanup pass. When
\* the exit hook runs after the signal handler's cleanup, the ledger holds nothing
\* the hook would delete; and when it runs after _done's clear(), the ledger is empty.
C30_OnePass ==
    /\ (pc = "atexit" /\ sig # "none") => Paths(Items) \cap disk = {}
    /\ (pc = "atexit" /\ hist.cleared) => Items = <<>>

====
